---- MODULE Spec2Model ----
(***************************************************************************)
(* coursebuilder: the rate-limited request gateway (ApiThrottler), the     *)
(* pipeline orchestrator of the getVideos route, and the pure helpers      *)
(* (duration codec, timestamp extractor, segment builder).                 *)
(*                                                                         *)
(* Time is the value of Date.now() in milliseconds.  A timer set by        *)
(* delay(ms) fires exactly ms later and a provider call answers exactly    *)
(* Latency later; continuations run as soon as they are ready, in any      *)
(* order among the callers that are ready at the same instant.             *)
(*                                                                         *)
(* Strings that the code parses are sequences of one-character strings;    *)
(* error messages, which the code only searches for a word, are sequences  *)
(* of words.                                                               *)
(***************************************************************************)
EXTENDS Integers, Sequences, FiniteSets, TLC

VARIABLES
    now,              \* Date.now()
    requestTimes,     \* ApiThrottler.requestTimes
    lastRequestTime,  \* ApiThrottler.lastRequestTime
    requestCount,     \* ApiThrottler.requestCount
    thr,              \* per caller: the frame of its throttle() invocation
    dispatched,       \* history: the times at which apiCall() was invoked
    started,          \* history: attempts started since Init
    budget,           \* the number of attempts this run explores
    req,              \* per caller: the frame of its POST request
    apiKey,           \* whether process.env.YOUTUBE_API_KEY is set
    pure,             \* the input and the output of a helper applied on its own
    page              \* the state of the page and its requests in flight

vars == <<now, requestTimes, lastRequestTime, requestCount, thr, dispatched, started, budget,
          req, apiKey, pure, page>>

----------------------------------------------------------------------------
(* Bounds of the model *)

\* the logical callers that share the one apiThrottler
Callers == {"a", "b"}

\* provider round-trip time of one call, in ms
Latency == 20

\* attempts explored after the initial history
MaxAttempts == 4

----------------------------------------------------------------------------
(* Program constants *)

defaultDelay == 100
maxRequestsPerMinute == 50
WindowMs == 60000
BufferMs == 1000
DefaultRetryAfterMs == 60000
YouTubeDelayMs == 100
YouTubeMaxRetries == 3
YouTubeBackoffMultiplier == 2

----------------------------------------------------------------------------
(* Strings *)

\* String.prototype.includes for a message and one word
Includes(message, word) == \E i \in 1..Len(message) : message[i] = word

QuotaMessage == <<"YouTube", "API", "quota", "exceeded.", "Please", "try", "again", "later.">>
DefaultFailureMessage == <<"API", "call", "failed", "after", "all", "retries">>

\* `HTTP ${response.status}`
HttpMessage(status) == <<"HTTP", ToString(status)>>

----------------------------------------------------------------------------
(* Characters *)

Digits == <<"0", "1", "2", "3", "4", "5", "6", "7", "8", "9">>

\* \d
IsDigit(ch) == \E i \in 1..Len(Digits) : Digits[i] = ch

DigitValue(ch) == (CHOOSE i \in 1..Len(Digits) : Digits[i] = ch) - 1

\* \s
IsSpace(ch) == ch \in {" ", "\n", "\t"}

\* a line terminator, which "." does not match
IsLineEnd(ch) == ch = "\n"

\* s[i], or "" past the end of s
At(s, i) == IF i >= 1 /\ i <= Len(s) THEN s[i] ELSE ""

\* the number of digits of s from position i on
RECURSIVE DigitRun(_, _)
DigitRun(s, i) == IF IsDigit(At(s, i)) THEN 1 + DigitRun(s, i + 1) ELSE 0

\* the number of whitespace characters of s from position i on
RECURSIVE SpaceRun(_, _)
SpaceRun(s, i) == IF IsSpace(At(s, i)) THEN 1 + SpaceRun(s, i + 1) ELSE 0

\* the decimal value of a sequence of digits
RECURSIVE DecimalValue(_)
DecimalValue(ds) ==
    IF ds = <<>> THEN 0
    ELSE 10 * DecimalValue(SubSeq(ds, 1, Len(ds) - 1)) + DigitValue(ds[Len(ds)])

\* the decimal digits of a natural number
RECURSIVE DecimalDigits(_)
DecimalDigits(n) ==
    IF n < 10 THEN <<Digits[n + 1]>>
    ELSE DecimalDigits(n \div 10) \o <<Digits[(n % 10) + 1]>>

NaN == -1

\* parseInt of a string of digits; NaN (never greater than a number) without a leading digit
ParseInt(s) ==
    IF DigitRun(s, 1) = 0 THEN NaN ELSE DecimalValue(SubSeq(s, 1, DigitRun(s, 1)))

\* String.prototype.includes for two strings
Contains(text, word) ==
    \E i \in 1..(Len(text) - Len(word) + 1) : SubSeq(text, i, i + Len(word) - 1) = word

\* the position of the first occurrence of word in text from position i on, 0 when none
RECURSIVE IndexFrom(_, _, _)
IndexFrom(text, word, i) ==
    IF i + Len(word) - 1 > Len(text) THEN 0
    ELSE IF SubSeq(text, i, i + Len(word) - 1) = word THEN i
    ELSE IndexFrom(text, word, i + 1)

\* a % b of JavaScript: the sign of the dividend
JsRem(a, b) == IF a >= 0 THEN a % b ELSE -((-a) % b)

\* Math.floor(a / b) for b > 0
FloorDiv(a, b) == a \div b

----------------------------------------------------------------------------
(* time.ts: the duration codec *)

\* one optional group (?:(\d+)X)? of the duration pattern tried at position i:
\* the group's value and the position after it
DurationGroup(s, i, unit) ==
    LET n == DigitRun(s, i) IN
    IF n > 0 /\ At(s, i + n) = unit
    THEN [value |-> DecimalValue(SubSeq(s, i, i + n - 1)), next |-> i + n + 1]
    ELSE [value |-> 0, next |-> i]

\* duration.match(/PT(?:(\d+)H)?(?:(\d+)M)?(?:(\d+)S)?/)
DurationMatch(s) ==
    LET p == IndexFrom(s, <<"P", "T">>, 1)
        h == DurationGroup(s, p + 2, "H")
        m == DurationGroup(s, h.next, "M")
        sec == DurationGroup(s, m.next, "S")
    IN  [matched |-> p # 0, hours |-> h.value, minutes |-> m.value, seconds |-> sec.value]

parseDurationToSeconds(duration) ==
    LET match == DurationMatch(duration) IN
    IF ~match.matched THEN 0
    ELSE match.hours * 3600 + match.minutes * 60 + match.seconds

\* a format that would leave the hours out
formatMinutesAndSeconds(seconds) ==
    LET minutes == FloorDiv(JsRem(seconds, 3600), 60)
        secs == JsRem(seconds, 60)
    IN  <<"P", "T">>
        \o (IF minutes > 0 THEN DecimalDigits(minutes) \o <<"M">> ELSE <<>>)
        \o (IF secs > 0 THEN DecimalDigits(secs) \o <<"S">> ELSE <<>>)

formatSecondsToDuration(seconds) ==
    LET hours == FloorDiv(seconds, 3600)
        minutes == FloorDiv(JsRem(seconds, 3600), 60)
        secs == JsRem(seconds, 60)
    IN  <<"P", "T">>
        \o (IF hours > 0 THEN DecimalDigits(hours) \o <<"H">> ELSE <<>>)
        \o (IF minutes > 0 THEN DecimalDigits(minutes) \o <<"M">> ELSE <<>>)
        \o (IF secs > 0 THEN DecimalDigits(secs) \o <<"S">> ELSE <<>>)

\* a check that would count whole minutes only
isLongVideoWholeMinutes(duration) ==
    LET match == DurationMatch(duration) IN
    IF ~match.matched THEN FALSE
    ELSE match.hours * 60 + match.minutes >= 30

\* totalMinutes = hours * 60 + minutes + seconds / 60 >= 30, in sixtieths of a minute
isLongVideo(duration) ==
    LET match == DurationMatch(duration) IN
    IF ~match.matched THEN FALSE
    ELSE (match.hours * 60 + match.minutes) * 60 + match.seconds >= 30 * 60

----------------------------------------------------------------------------
(* timestamps.ts: the timestamp extractor *)

\* \d{1,2} at position i: the number of digits taken, 0 when none
DigitsAt(s, i) ==
    IF IsDigit(At(s, i)) /\ IsDigit(At(s, i + 1)) THEN 2
    ELSE IF IsDigit(At(s, i)) THEN 1 ELSE 0

\* :\d{2} after the n characters matched from position i: the length matched
\* so far, 0 when there is no match
ColonPairAfter(s, i, n) ==
    IF n > 0 /\ At(s, i + n) = ":" /\ IsDigit(At(s, i + n + 1)) /\ IsDigit(At(s, i + n + 2))
    THEN n + 3 ELSE 0

\* (\d{1,2}:\d{2}) at position i: the length of the token, 0 when it does not match
ShortTokenAt(s, i) == ColonPairAfter(s, i, DigitsAt(s, i))

\* (\d{1,2}:\d{2}:\d{2}) at position i
LongTokenAt(s, i) == ColonPairAfter(s, i, ShortTokenAt(s, i))

\* the five patterns, in the order of the patterns array
Patterns ==
    << [open |-> "",  hours |-> FALSE, dash |-> FALSE, space |-> 1],
       [open |-> "",  hours |-> FALSE, dash |-> TRUE,  space |-> 0],
       [open |-> "[", hours |-> FALSE, dash |-> FALSE, space |-> 0],
       [open |-> "",  hours |-> TRUE,  dash |-> FALSE, space |-> 1],
       [open |-> "",  hours |-> TRUE,  dash |-> TRUE,  space |-> 0] >>

\* the end of the line that holds position i: the first line terminator from i on
RECURSIVE LineEnd(_, _)
LineEnd(s, i) == IF i > Len(s) \/ IsLineEnd(s[i]) THEN i ELSE LineEnd(s, i + 1)

\* String.prototype.trim of a string that starts with no whitespace
RECURSIVE TrimEnd(_)
TrimEnd(s) == IF s # <<>> /\ IsSpace(s[Len(s)]) THEN TrimEnd(SubSeq(s, 1, Len(s) - 1)) ELSE s

\* the position of the time token of a match tried at position i
TokenStart(i, pattern) == IF pattern.open = "" THEN i ELSE i + 1

\* the length of the time token, 0 when there is none
TokenLength(s, i, pattern) ==
    IF pattern.hours THEN LongTokenAt(s, TokenStart(i, pattern))
    ELSE ShortTokenAt(s, TokenStart(i, pattern))

\* the position after the token and its closing bracket
AfterToken(pattern, tokenAt, n) ==
    IF pattern.open = "" THEN tokenAt + n ELSE tokenAt + n + 1

\* the match itself: the two groups and the regex's lastIndex
MatchResult(s, i, tokenAt, n, titleAt, ok) ==
    [ok |-> ok,
     timeStr |-> IF ok THEN SubSeq(s, tokenAt, tokenAt + n - 1) ELSE <<>>,
     title |-> IF ok THEN TrimEnd(SubSeq(s, titleAt, LineEnd(s, titleAt) - 1)) ELSE <<>>,
     lastIndex |-> IF ok THEN LineEnd(s, titleAt) ELSE i]

MatchTitle(s, i, pattern, tokenAt, n, afterToken, gap, titleAt) ==
    MatchResult(s, i, tokenAt, n, titleAt,
        /\ n > 0
        /\ pattern.open = "" \/ (At(s, i) = "[" /\ At(s, tokenAt + n) = "]")
        /\ gap >= pattern.space
        /\ pattern.dash => At(s, afterToken + gap) = "-"
        /\ titleAt <= Len(s))

MatchGap(s, i, pattern, tokenAt, n, afterToken, gap) ==
    MatchTitle(s, i, pattern, tokenAt, n, afterToken, gap,
        IF pattern.dash THEN afterToken + gap + 1 + SpaceRun(s, afterToken + gap + 1)
        ELSE afterToken + gap)

MatchToken(s, i, pattern, tokenAt, n) ==
    MatchGap(s, i, pattern, tokenAt, n, AfterToken(pattern, tokenAt, n),
             SpaceRun(s, AfterToken(pattern, tokenAt, n)))

\* the pattern tried at position i.  The title group (.+) starts after the
\* whitespace that follows the token (and the dash) and runs to the end of the
\* line.  A match whose title would hold whitespace only ends the text and
\* gives no marker, so it counts as no match here.
MatchAt(s, i, pattern) ==
    MatchToken(s, i, pattern, TokenStart(i, pattern), TokenLength(s, i, pattern))

\* timeStr.split(':').map(Number)
RECURSIVE SplitColon(_)
SplitColon(t) ==
    LET n == DigitRun(t, 1) IN
    IF n = Len(t) THEN <<DecimalValue(t)>>
    ELSE <<DecimalValue(SubSeq(t, 1, n))>> \o SplitColon(SubSeq(t, n + 2, Len(t)))

parseTimeStringToSeconds(timeStr) ==
    LET parts == SplitColon(timeStr) IN
    IF Len(parts) = 2 THEN parts[1] * 60 + parts[2]
    ELSE IF Len(parts) = 3 THEN parts[1] * 3600 + parts[2] * 60 + parts[3]
    ELSE 0

\* the guard of timestamps.push
KeepMatch(timeInSeconds, title) == timeInSeconds > 0 /\ Len(title) > 0

\* timestamps.push({ time: timeInSeconds, title }) under its guard
Pushed(timeInSeconds, title) ==
    IF KeepMatch(timeInSeconds, title)
    THEN <<[time |-> timeInSeconds, title |-> title]>> ELSE <<>>

\* the while loop of pattern.exec(description) from lastIndex i on
RECURSIVE ExecAll(_, _, _)
RECURSIVE ExecStep(_, _, _, _)
ExecStep(s, i, pattern, m) ==
    IF ~m.ok THEN ExecAll(s, i + 1, pattern)
    ELSE Pushed(parseTimeStringToSeconds(m.timeStr), m.title)
         \o ExecAll(s, m.lastIndex, pattern)

ExecAll(s, i, pattern) ==
    IF i > Len(s) THEN <<>> ELSE ExecStep(s, i, pattern, MatchAt(s, i, pattern))

\* the for loop over the patterns
RECURSIVE AllMatches(_, _)
AllMatches(s, k) ==
    IF k > Len(Patterns) THEN <<>> ELSE ExecAll(s, 1, Patterns[k]) \o AllMatches(s, k + 1)

\* Array.prototype.sort with (a, b) => a.time - b.time.  The sort is stable:
\* element i lands after every element with a smaller time and after the
\* earlier elements with the same time.
PositionByTime(xs, i) ==
    1 + Cardinality({j \in 1..Len(xs) :
                        xs[j].time < xs[i].time \/ (xs[j].time = xs[i].time /\ j < i)})

SortByTime(xs) ==
    [k \in 1..Len(xs) |-> xs[CHOOSE i \in 1..Len(xs) : PositionByTime(xs, i) = k]]

\* a filter that would keep the last of the entries with the same time
RECURSIVE DropRepeatedKeepLast(_, _)
DropRepeatedKeepLast(arr, index) ==
    IF index > Len(arr) THEN <<>>
    ELSE (IF index = Len(arr) \/ arr[index].time # arr[index + 1].time
          THEN <<arr[index]>> ELSE <<>>)
         \o DropRepeatedKeepLast(arr, index + 1)

\* .filter((timestamp, index, arr) => index === 0 || timestamp.time !== arr[index - 1].time)
RECURSIVE DropRepeated(_, _)
DropRepeated(arr, index) ==
    IF index > Len(arr) THEN <<>>
    ELSE (IF index = 1 \/ arr[index].time # arr[index - 1].time THEN <<arr[index]>> ELSE <<>>)
         \o DropRepeated(arr, index + 1)

extractTimestampsFromDescription(description) ==
    DropRepeated(SortByTime(AllMatches(description, 1)), 1)

\* a segment that would always run to the end of the video
SegmentEndTotal(timestamps, i, totalSeconds) == totalSeconds

\* the end time of segment i
SegmentEnd(timestamps, i, totalSeconds) ==
    IF i + 1 <= Len(timestamps) THEN timestamps[i + 1].time ELSE totalSeconds

createSegmentsFromTimestamps(timestamps, totalSeconds) ==
    [i \in 1..Len(timestamps) |->
        [startTime |-> timestamps[i].time,
         endTime |-> SegmentEnd(timestamps, i, totalSeconds),
         title |-> timestamps[i].title]]

----------------------------------------------------------------------------
(* segments.ts: the equal-split fallback *)

UpperCase == <<"A", "B", "C", "D", "E", "F", "G", "H", "I", "J", "K", "L", "M", "N", "O", "P", "Q", "R", "S", "T", "U", "V", "W", "X", "Y", "Z">>
LowerCase == <<"a", "b", "c", "d", "e", "f", "g", "h", "i", "j", "k", "l", "m", "n", "o", "p", "q", "r", "s", "t", "u", "v", "w", "x", "y", "z">>

\* String.prototype.toLowerCase
ToLowerCase(s) ==
    [i \in 1..Len(s) |->
        IF \E k \in 1..Len(UpperCase) : UpperCase[k] = s[i]
        THEN LowerCase[CHOOSE k \in 1..Len(UpperCase) : UpperCase[k] = s[i]]
        ELSE s[i]]

ReactTitles ==
    << <<"C", "o", "m", "p", "o", "n", "e", "n", "t", "s", " ", "&", " ", "J", "S", "X">>, <<"S", "t", "a", "t", "e", " ", "&", " ", "P", "r", "o", "p", "s">>, <<"H", "o", "o", "k", "s", " ", "&", " ", "E", "f", "f", "e", "c", "t", "s">>,
       <<"R", "o", "u", "t", "i", "n", "g", " ", "&", " ", "N", "a", "v", "i", "g", "a", "t", "i", "o", "n">>, <<"D", "e", "p", "l", "o", "y", "m", "e", "n", "t", " ", "&", " ", "B", "e", "s", "t", " ", "P", "r", "a", "c", "t", "i", "c", "e", "s">> >>
JavaScriptTitles ==
    << <<"V", "a", "r", "i", "a", "b", "l", "e", "s", " ", "&", " ", "F", "u", "n", "c", "t", "i", "o", "n", "s">>, <<"O", "b", "j", "e", "c", "t", "s", " ", "&", " ", "A", "r", "r", "a", "y", "s">>, <<"D", "O", "M", " ", "M", "a", "n", "i", "p", "u", "l", "a", "t", "i", "o", "n">>,
       <<"A", "s", "y", "n", "c", " ", "P", "r", "o", "g", "r", "a", "m", "m", "i", "n", "g">>, <<"M", "o", "d", "e", "r", "n", " ", "E", "S", "6", "+", " ", "F", "e", "a", "t", "u", "r", "e", "s">> >>
PythonTitles ==
    << <<"S", "y", "n", "t", "a", "x", " ", "&", " ", "V", "a", "r", "i", "a", "b", "l", "e", "s">>, <<"D", "a", "t", "a", " ", "S", "t", "r", "u", "c", "t", "u", "r", "e", "s">>, <<"F", "u", "n", "c", "t", "i", "o", "n", "s", " ", "&", " ", "C", "l", "a", "s", "s", "e", "s">>,
       <<"F", "i", "l", "e", " ", "H", "a", "n", "d", "l", "i", "n", "g", " ", "&", " ", "L", "i", "b", "r", "a", "r", "i", "e", "s">>, <<"A", "d", "v", "a", "n", "c", "e", "d", " ", "C", "o", "n", "c", "e", "p", "t", "s">> >>
HtmlCssTitles ==
    << <<"H", "T", "M", "L", " ", "B", "a", "s", "i", "c", "s">>, <<"C", "S", "S", " ", "S", "t", "y", "l", "i", "n", "g">>, <<"R", "e", "s", "p", "o", "n", "s", "i", "v", "e", " ", "D", "e", "s", "i", "g", "n">>,
       <<"A", "d", "v", "a", "n", "c", "e", "d", " ", "C", "S", "S">>, <<"M", "o", "d", "e", "r", "n", " ", "W", "e", "b", " ", "D", "e", "v", "e", "l", "o", "p", "m", "e", "n", "t">> >>
NodeTitles ==
    << <<"N", "o", "d", "e", ".", "j", "s", " ", "B", "a", "s", "i", "c", "s">>, <<"E", "x", "p", "r", "e", "s", "s", ".", "j", "s", " ", "F", "r", "a", "m", "e", "w", "o", "r", "k">>, <<"D", "a", "t", "a", "b", "a", "s", "e", " ", "I", "n", "t", "e", "g", "r", "a", "t", "i", "o", "n">>,
       <<"A", "P", "I", " ", "D", "e", "v", "e", "l", "o", "p", "m", "e", "n", "t">>, <<"P", "r", "o", "d", "u", "c", "t", "i", "o", "n", " ", "D", "e", "p", "l", "o", "y", "m", "e", "n", "t">> >>
DefaultTitles ==
    << <<"I", "n", "t", "r", "o", "d", "u", "c", "t", "i", "o", "n", " ", "&", " ", "S", "e", "t", "u", "p">>, <<"B", "a", "s", "i", "c", " ", "C", "o", "n", "c", "e", "p", "t", "s">>, <<"C", "o", "r", "e", " ", "F", "e", "a", "t", "u", "r", "e", "s">>,
       <<"A", "d", "v", "a", "n", "c", "e", "d", " ", "T", "o", "p", "i", "c", "s">>, <<"B", "e", "s", "t", " ", "P", "r", "a", "c", "t", "i", "c", "e", "s", " ", "&", " ", "C", "o", "n", "c", "l", "u", "s", "i", "o", "n">> >>

generateSegmentTitles(query) ==
    LET topic == ToLowerCase(query) IN
    IF Contains(topic, <<"r", "e", "a", "c", "t">>) THEN ReactTitles
    ELSE IF Contains(topic, <<"j", "a", "v", "a", "s", "c", "r", "i", "p", "t">>) THEN JavaScriptTitles
    ELSE IF Contains(topic, <<"p", "y", "t", "h", "o", "n">>) THEN PythonTitles
    ELSE IF Contains(topic, <<"h", "t", "m", "l">>) \/ Contains(topic, <<"c", "s", "s">>) THEN HtmlCssTitles
    ELSE IF Contains(topic, <<"n", "o", "d", "e">>) THEN NodeTitles
    ELSE DefaultTitles

segmentCount == 5

Min(a, b) == IF a <= b THEN a ELSE b

\* the end time of segment i (from 0) of the equal split
EqualSegmentEnd(i, segmentDuration, totalSeconds) ==
    Min((i + 1) * segmentDuration, totalSeconds)

createEqualSegments(totalSeconds, query) ==
    LET segmentDuration == FloorDiv(totalSeconds, segmentCount)
        segmentTitles == generateSegmentTitles(query)
    IN  [k \in 1..segmentCount |->
            [startTime |-> (k - 1) * segmentDuration,
             endTime |-> EqualSegmentEnd(k - 1, segmentDuration, totalSeconds),
             title |-> IF k <= Len(segmentTitles) THEN segmentTitles[k]
                       ELSE <<"P", "a", "r", "t", " ">> \o DecimalDigits(k)]]

----------------------------------------------------------------------------
(* difficulty.ts: the difficulty classifier *)

BeginnerKeywords ==
    << <<"b", "e", "g", "i", "n", "n", "e", "r">>, <<"b", "a", "s", "i", "c", "s">>, <<"i", "n", "t", "r", "o", "d", "u", "c", "t", "i", "o", "n">>, <<"g", "e", "t", "t", "i", "n", "g", " ", "s", "t", "a", "r", "t", "e", "d">>, <<"t", "u", "t", "o", "r", "i", "a", "l">>,
       <<"l", "e", "a", "r", "n">>, <<"h", "o", "w", " ", "t", "o">>, <<"s", "t", "e", "p", " ", "b", "y", " ", "s", "t", "e", "p">>, <<"f", "o", "r", " ", "b", "e", "g", "i", "n", "n", "e", "r", "s">> >>
IntermediateKeywords ==
    << <<"i", "n", "t", "e", "r", "m", "e", "d", "i", "a", "t", "e">>, <<"a", "d", "v", "a", "n", "c", "e", "d">>, <<"d", "e", "e", "p", " ", "d", "i", "v", "e">>, <<"m", "a", "s", "t", "e", "r">>, <<"c", "o", "m", "p", "l", "e", "t", "e", " ", "g", "u", "i", "d", "e">>,
       <<"c", "o", "m", "p", "r", "e", "h", "e", "n", "s", "i", "v", "e">>, <<"i", "n", "-", "d", "e", "p", "t", "h">> >>
ExpertKeywords ==
    << <<"e", "x", "p", "e", "r", "t">>, <<"p", "r", "o", "f", "e", "s", "s", "i", "o", "n", "a", "l">>, <<"p", "r", "o", "d", "u", "c", "t", "i", "o", "n">>, <<"e", "n", "t", "e", "r", "p", "r", "i", "s", "e">>, <<"o", "p", "t", "i", "m", "i", "z", "a", "t", "i", "o", "n">>,
       <<"p", "e", "r", "f", "o", "r", "m", "a", "n", "c", "e">>, <<"a", "r", "c", "h", "i", "t", "e", "c", "t", "u", "r", "e">> >>

ContainsAny(text, keywords) == \E k \in 1..Len(keywords) : Contains(text, keywords[k])

\* a classifier that would look for expert keywords first
calculateExpertFirst(video) ==
    LET text == ToLowerCase(video.title) \o <<" ">> \o ToLowerCase(video.description) IN
    IF ContainsAny(text, ExpertKeywords) THEN 2
    ELSE IF ContainsAny(text, BeginnerKeywords) THEN 0
    ELSE 1

calculateDifficultyScore(video) ==
    LET text == ToLowerCase(video.title) \o <<" ">> \o ToLowerCase(video.description) IN
    IF ContainsAny(text, BeginnerKeywords) THEN 0
    ELSE IF ContainsAny(text, ExpertKeywords) THEN 2
    ELSE IF ContainsAny(text, IntermediateKeywords) THEN 1
    ELSE 1

\* a sort that would put the later of two items with one score first
PositionByScoreLaterFirst(xs, i) ==
    1 + Cardinality({j \in 1..Len(xs) :
                        \/ xs[j].difficultyScore < xs[i].difficultyScore
                        \/ xs[j].difficultyScore = xs[i].difficultyScore /\ j > i})

\* Array.prototype.sort with (a, b) => a.difficultyScore - b.difficultyScore,
\* a stable sort
PositionByScore(xs, i) ==
    1 + Cardinality({j \in 1..Len(xs) :
                        \/ xs[j].difficultyScore < xs[i].difficultyScore
                        \/ xs[j].difficultyScore = xs[i].difficultyScore /\ j < i})

SortByScore(xs) ==
    [k \in 1..Len(xs) |-> xs[CHOOSE i \in 1..Len(xs) : PositionByScore(xs, i) = k]]

\* { ...video, difficultyScore }
WithScore(video) ==
    [id |-> video.id, title |-> video.title, description |-> video.description,
     channelTitle |-> video.channelTitle, publishedAt |-> video.publishedAt,
     duration |-> video.duration, viewCount |-> video.viewCount,
     startTime |-> video.startTime, endTime |-> video.endTime,
     difficultyScore |-> calculateDifficultyScore(video)]

sortVideosByDifficulty(videos) ==
    SortByScore([i \in 1..Len(videos) |-> WithScore(videos[i])])

----------------------------------------------------------------------------
(* route.ts: splitVideoIntoSegments *)

substringLength == 100

\* the segments of splitVideoIntoSegments
SegmentsOf(video, query) ==
    LET totalSeconds == parseDurationToSeconds(video.duration)
        timestamps == extractTimestampsFromDescription(video.description)
    IN  IF Len(timestamps) > 0
        THEN createSegmentsFromTimestamps(timestamps, totalSeconds)
        ELSE createEqualSegments(totalSeconds, query)

\* a split that would give every segment its end time as its duration
splitWithEndAsDuration(video, query) ==
    LET segments == SegmentsOf(video, query) IN
    [i \in 1..Len(segments) |->
        [id |-> video.id,
         title |-> segments[i].title,
         description |-> <<>>,
         channelTitle |-> video.channelTitle,
         publishedAt |-> video.publishedAt,
         duration |-> formatSecondsToDuration(segments[i].endTime),
         viewCount |-> video.viewCount,
         startTime |-> segments[i].startTime,
         endTime |-> segments[i].endTime]]

splitVideoIntoSegments(video, query) ==
    LET segments == SegmentsOf(video, query) IN
    [i \in 1..Len(segments) |->
        [id |-> video.id,
         title |-> segments[i].title,
         description |-> <<"S", "e", "g", "m", "e", "n", "t", " ">> \o DecimalDigits(i) \o <<":", " ">>
                         \o SubSeq(video.description, 1,
                                   Min(substringLength, Len(video.description)))
                         \o <<".", ".", ".">>,
         channelTitle |-> video.channelTitle,
         publishedAt |-> video.publishedAt,
         duration |-> formatSecondsToDuration(segments[i].endTime - segments[i].startTime),
         viewCount |-> IF video.viewCount # <<>> THEN video.viewCount ELSE <<"0">>,
         startTime |-> segments[i].startTime,
         endTime |-> segments[i].endTime]]

----------------------------------------------------------------------------
(* The provider's answers.  status 0 stands for fetch() rejecting (a       *)
(* network error); message is error.message of the JSON body (<<>> when    *)
(* the body has none); retryAfter is the text of the Retry-After header    *)
(* (empty when absent); items is the items array of a 2xx body.            *)

\* response.headers.get('Retry-After') of a response without the header: the
\* code tells it from a header only by if (retryAfter), as it does ""
NoHeader == <<>>

Response(status, message, retryAfter, items) ==
    [status |-> status, message |-> message, retryAfter |-> retryAfter, items |-> items]

RespOk(items)   == Response(200, <<>>, NoHeader, items)
Resp429         == Response(429, <<>>, NoHeader, <<>>)
Resp429After(s) == Response(429, <<>>, s, <<>>)
RespQuota       == Response(403, <<"The", "request", "cannot", "be", "completed",
                                   "because", "you", "have", "exceeded", "your", "quota">>,
                            NoHeader, <<>>)
RespForbidden   == Response(403, <<"Forbidden">>, NoHeader, <<>>)
RespBadRequest  == Response(400, <<>>, NoHeader, <<>>)
RespServerError == Response(500, <<"Backend", "Error">>, NoHeader, <<>>)
RespNetworkError == Response(0, <<"fetch", "failed">>, NoHeader, <<>>)

GatewayResponses ==
    { RespOk(<<>>), Resp429, Resp429After(<<"1">>), RespQuota, RespBadRequest,
      RespServerError, RespNetworkError }

----------------------------------------------------------------------------
(* route.ts: POST, fetchYouTubeVideos, scrapeYouTubeVideos *)

\* request bodies: the prompt field of the JSON body, or a body that is no JSON
PromptString(text) == [type |-> "string", text |-> text]
PromptMissing == [type |-> "undefined", text |-> <<>>]
PromptNumber == [type |-> "number", text |-> <<"4", "2">>]
BodyNotJson == [type |-> "not-json", text |-> <<>>]
NoBody == [type |-> "none", text |-> <<>>]

Bodies ==
    { PromptString(<<"R", "e", "a", "c", "t">>), PromptString(<<>>),
      PromptMissing, PromptNumber, BodyNotJson }

\* a validation that would let an empty string through
InvalidPromptNotString(prompt) == prompt.type # "string"

\* !prompt || typeof prompt !== 'string'
InvalidPrompt(prompt) ==
    \/ prompt.type = "undefined"
    \/ prompt.type = "string" /\ prompt.text = <<>>
    \/ prompt.type # "string"

\* the videos the provider knows: items of a details response
Video(id, title, description, duration, viewCount) ==
    [id |-> id, title |-> title, description |-> description,
     channelTitle |-> "channel", publishedAt |-> "2024-01-01T00:00:00Z",
     duration |-> duration, viewCount |-> viewCount]

Catalog ==
    << Video("chapters", <<"R", "e", "a", "c", "t", " ", "C", "r", "a", "s", "h", " ", "C", "o", "u", "r", "s", "e">>,
             <<"L", "e", "a", "r", "n", " ", "R", "e", "a", "c", "t", "\n", "5", ":", "3", "0", " ", "S", "e", "t", "u", "p", "\n", "1", "2", ":", "0", "0", " ", "-", " ", "A", "d", "v", "a", "n", "c", "e", "d", " ", "h", "o", "o", "k", "s">>, <<"P", "T", "4", "5", "M">>, <<"5">>),
       Video("plain", <<"F", "u", "l", "l", " ", "c", "o", "u", "r", "s", "e">>, <<"N", "o", " ", "c", "h", "a", "p", "t", "e", "r", "s", " ", "h", "e", "r", "e">>, <<"P", "T", "1", "H", "0", "M", "3", "S">>, <<"9">>),
       Video("rival", <<"C", "o", "m", "p", "l", "e", "t", "e", " ", "g", "u", "i", "d", "e">>, <<"[", "1", "0", ":", "0", "0", "]", " ", "P", "r", "o", "d", "u", "c", "t", "i", "o", "n">>, <<"P", "T", "3", "0", "M">>, <<"9">>),
       Video("unseen", <<"B", "r", "a", "n", "d", " ", "n", "e", "w", " ", "c", "o", "u", "r", "s", "e">>, <<"0", ":", "0", "0", " ", "I", "n", "t", "r", "o">>, <<"P", "T", "5", "0", "M">>, <<"0">>),
       Video("short", <<"Q", "u", "i", "c", "k", " ", "t", "i", "p">>, <<"1", ":", "0", "0", " ", "T", "i", "p">>, <<"P", "T", "2", "9", "M", "5", "9", "S">>, <<"9", "9">>) >>

\* the items arrays of the details responses explored, as positions in Catalog
DetailLists == { <<1>>, <<2, 3>>, <<3, 5>>, <<4>>, <<5>>, <<>> }

\* the items arrays of the search responses explored (the video ids, as positions in Catalog)
SearchLists == { <<>>, <<1, 2>> }

SearchResponses ==
    {RespOk(items) : items \in SearchLists}
        \cup {Resp429, RespQuota, RespServerError, RespNetworkError}

DetailsResponses ==
    {RespOk(items) : items \in DetailLists}
        \cup {Resp429, RespQuota, RespServerError, RespNetworkError}

\* crashCourseQueries
crashCourseQueries(query) ==
    << query \o <<" ", "c", "r", "a", "s", "h", " ", "c", "o", "u", "r", "s", "e">>, query \o <<" ", "c", "o", "m", "p", "l", "e", "t", "e", " ", "c", "o", "u", "r", "s", "e">>,
       query \o <<" ", "f", "u", "l", "l", " ", "t", "u", "t", "o", "r", "i", "a", "l">>, query \o <<" ", "c", "o", "u", "r", "s", "e", " ", "t", "u", "t", "o", "r", "i", "a", "l">> >>

NoVideo == 0

Range(xs) == {xs[i] : i \in 1..Len(xs)}

IdleRequest ==
    [pc |-> "idle", query |-> <<>>, variant |-> 0, bestVideo |-> NoVideo, maxViews |-> 0,
     status |-> 0, videos |-> <<>>, error |-> "",
     returned |-> {}, calls |-> 0, failed |-> 0, quota |-> 0,
     \* history: the body of the request, and, in the specifications that make
     \* a request twice, the provider's answers to the calls of the request
     body |-> NoBody, recording |-> FALSE, responses |-> <<>>]

\* NextResponse.json(..., { status })
Respond(r, status, videos, error) ==
    [r EXCEPT !.pc = "responded", !.status = status, !.videos = videos, !.error = error]

\* a fallback that would answer with videos of its own
FallbackWithVideos(query) ==
    <<[id |-> "fallback", title |-> query, description |-> <<>>,
       channelTitle |-> "channel", publishedAt |-> "2024-01-01T00:00:00Z",
       duration |-> <<"P", "T", "1", "H">>, viewCount |-> <<"0">>,
       startTime |-> 0, endTime |-> 3600]>>

\* getFallbackVideos returns an empty list when the API fails
getFallbackVideos(query) == <<>>

\* a selection that would let a candidate with as many views replace the best
BetterOrEqual(viewCount, maxViews, duration) == viewCount >= maxViews /\ isLongVideo(duration)

\* a selection that would ignore the length of a candidate
BetterAnyLength(viewCount, maxViews, duration) == viewCount > maxViews

\* the condition under which a candidate replaces bestVideo
Better(viewCount, maxViews, duration) == viewCount > maxViews /\ isLongVideo(duration)

\* the for loop over detailsData.items, from position k on
RECURSIVE SelectBest(_, _, _)
SelectBest(r, items, k) ==
    IF k > Len(items) THEN r
    ELSE LET video == Catalog[items[k]]
             viewCount == ParseInt(IF video.viewCount # <<>> THEN video.viewCount ELSE <<"0">>)
         IN  IF Better(viewCount, r.maxViews, video.duration)
             THEN SelectBest([r EXCEPT !.maxViews = viewCount, !.bestVideo = items[k]],
                             items, k + 1)
             ELSE SelectBest(r, items, k + 1)

\* the prompts that pass the validation of POST
ValidQueries == {body.text : body \in {b \in Bodies : ~InvalidPrompt(b)}}

\* sortVideosByDifficulty(await splitVideoIntoSegments(bestVideo, query)), for every
\* query and every video of the catalog
segmentedVideos ==
    [query \in ValidQueries |->
        [v \in 1..Len(Catalog) |->
            sortVideosByDifficulty(splitVideoIntoSegments(Catalog[v], query))]]

\* the end of scrapeYouTubeVideos and of fetchYouTubeVideos and POST after it
Finish(r) ==
    IF r.bestVideo = NoVideo
    THEN Respond(r, 200, sortVideosByDifficulty(getFallbackVideos(r.query)), "")
    ELSE Respond(r, 200, segmentedVideos[r.query][r.bestVideo], "")

NoPure == [fn |-> "none"]

----------------------------------------------------------------------------
(* ApiThrottler *)

NoResult == [hasData |-> FALSE, data |-> <<>>, error |-> <<>>, status |-> 0]

IdleFrame ==
    [pc |-> "idle", attempt |-> 0, delay |-> 0, lastError |-> <<>>,
     maxRetries |-> 0, backoffMultiplier |-> 0,
     now |-> 0, oldestRequest |-> 0, atLimit |-> FALSE,
     wake |-> 0, calls |-> 0, dispatchedAt |-> 0, quotaSeen |-> FALSE, result |-> NoResult,
     answer |-> RespOk(<<>>),
     \* history of the invocation: the backoff sleeps taken, the attempts that
     \* failed with a 5xx response or a network error, the time of the last answer
     sleeps |-> <<>>, transient |-> 0, settledAt |-> 0]

\* a loop that would take as many entries, but from the new end (pop)
PruneNewest(times, oneMinuteAgo) ==
    SubSeq(times, 1, Len(times) - Cardinality({i \in 1..Len(times) : times[i] < oneMinuteAgo}))

\* the while loop of waitForRateLimit: drop the leading entries older than a minute
RECURSIVE Prune(_, _)
Prune(times, oneMinuteAgo) ==
    IF Len(times) > 0 /\ times[1] < oneMinuteAgo
    THEN Prune(Tail(times), oneMinuteAgo)
    ELSE times

\* waitTime of waitForRateLimit
WaitTimeMutant(nowLocal, oldestRequest) == WindowMs - (nowLocal - oldestRequest)

WaitTime(nowLocal, oldestRequest) == WindowMs - (nowLocal - oldestRequest) + BufferMs

\* a gateway that would fail the call at a full window
FloorCheckFailingAtLimit(f, last) ==
    IF f.atLimit
    THEN [f EXCEPT !.pc = "done",
                   !.result = [hasData |-> FALSE, data |-> <<>>,
                               error |-> <<"rate", "limited">>, status |-> 500]]
    ELSE IF f.now - last < defaultDelay
    THEN [f EXCEPT !.pc = "floorWait", !.wake = now + (defaultDelay - (f.now - last))]
    ELSE [f EXCEPT !.pc = "ready"]

\* "Ensure minimum delay between requests": the frame after the check
FloorCheck(f, last) ==
    LET timeSinceLastRequest == f.now - last IN
    IF timeSinceLastRequest < defaultDelay
    THEN [f EXCEPT !.pc = "floorWait", !.wake = now + (defaultDelay - timeSinceLastRequest)]
    ELSE [f EXCEPT !.pc = "ready"]

\* a getRetryAfterDelay that would take the header for milliseconds
GetRetryAfterSeconds(response) ==
    IF response.retryAfter # NoHeader
    THEN ParseInt(response.retryAfter)
    ELSE DefaultRetryAfterMs

\* getRetryAfterDelay: parseInt(retryAfter) * 1000, NaN when the header does
\* not start with a digit
GetRetryAfterDelay(response) ==
    IF response.retryAfter # NoHeader
    THEN IF ParseInt(response.retryAfter) = NaN THEN NaN
         ELSE ParseInt(response.retryAfter) * 1000
    ELSE DefaultRetryAfterMs

\* setTimeout(resolve, ms): a delay that is NaN or less than 1 is set to 1
SetTimeout(ms) == IF ms < 1 THEN 1 ELSE ms

\* the return after the loop
Failure(f) ==
    [f EXCEPT !.pc = "done",
              !.result = [hasData |-> FALSE, data |-> <<>>,
                          error |-> IF f.lastError # <<>> THEN f.lastError
                                    ELSE DefaultFailureMessage,
                          status |-> 500]]

\* a loop that would go on whatever the attempt
NextAttemptUnbounded(f) == [f EXCEPT !.attempt = f.attempt + 1, !.pc = "loop"]

\* a loop that would stop one attempt early
NextAttemptOneLess(f) ==
    LET g == [f EXCEPT !.attempt = f.attempt + 1] IN
    IF g.attempt < g.maxRetries THEN [g EXCEPT !.pc = "loop"] ELSE Failure(g)

\* attempt++ and the loop condition
NextAttempt(f) ==
    LET g == [f EXCEPT !.attempt = f.attempt + 1] IN
    IF g.attempt <= g.maxRetries THEN [g EXCEPT !.pc = "loop"] ELSE Failure(g)

\* a catch block that would give up on a 404 as well
NoRetryNotFound(message) ==
    \/ Includes(message, "quota") \/ Includes(message, "400")
    \/ Includes(message, "401") \/ Includes(message, "404")

NoRetryQuotaDropped(message) ==
    Includes(message, "400") \/ Includes(message, "401")

\* "Don't retry on quota exceeded or client errors"
NoRetry(message) ==
    Includes(message, "quota") \/ Includes(message, "400") \/ Includes(message, "401")

\* the catch block, entered with the raised error's message
Catch(f, message) ==
    LET g == [f EXCEPT !.lastError = message] IN
    IF NoRetry(message) THEN Failure(g)
    ELSE IF g.attempt < g.maxRetries
         THEN [g EXCEPT !.pc = "backoffWait", !.wake = now + g.delay,
                        !.sleeps = Append(@, g.delay)]
         ELSE NextAttempt(g)

\* throttle() is entered with the options of throttledYouTubeApiCall
Enter(f) ==
    [IdleFrame EXCEPT !.pc = "loop", !.delay = YouTubeDelayMs,
                      !.maxRetries = YouTubeMaxRetries,
                      !.backoffMultiplier = YouTubeBackoffMultiplier]

\* a caller calls throttledYouTubeApiCall
Invoke(c) ==
    /\ thr[c].pc = "idle"
    /\ started < budget
    /\ thr' = [thr EXCEPT ![c] = Enter(thr[c])]
    /\ UNCHANGED <<now, requestTimes, lastRequestTime, requestCount, dispatched, started, budget, req, apiKey, pure, page>>

\* the caller's await of throttledYouTubeApiCall resumes with the result
Resume(c) ==
    /\ thr[c].pc = "done"
    /\ thr' = [thr EXCEPT ![c] = IdleFrame]
    /\ UNCHANGED <<now, requestTimes, lastRequestTime, requestCount, dispatched, started, budget, req, apiKey, pure, page>>

\* waitForRateLimit up to its first await
WaitForRateLimit(c) ==
    /\ thr[c].pc = "loop"
    /\ started < budget
    /\ started' = started + 1
    /\ LET pruned == Prune(requestTimes, now - WindowMs)
           f == [thr[c] EXCEPT !.now = now, !.atLimit = FALSE]
       IN  /\ requestTimes' = pruned
           /\ IF Len(pruned) >= maxRequestsPerMinute
              THEN LET g == [f EXCEPT !.oldestRequest = pruned[1], !.atLimit = TRUE]
                       waitTime == WaitTime(now, pruned[1])
                   IN  IF waitTime > 0
                       THEN thr' = [thr EXCEPT ![c] =
                                      [g EXCEPT !.pc = "limitWait", !.wake = now + waitTime]]
                       ELSE thr' = [thr EXCEPT ![c] = FloorCheck(g, lastRequestTime)]
              ELSE thr' = [thr EXCEPT ![c] = FloorCheck(f, lastRequestTime)]
    /\ UNCHANGED <<now, lastRequestTime, requestCount, dispatched, budget, req, apiKey, pure, page>>

\* a timer set by delay() fires and the code after the await runs
TimerFires(c) ==
    /\ thr[c].pc \in {"limitWait", "floorWait", "retryAfterWait", "backoffWait"}
    /\ thr[c].wake <= now
    /\ thr' = [thr EXCEPT ![c] =
                 CASE thr[c].pc = "limitWait" -> FloorCheck(thr[c], lastRequestTime)
                   [] thr[c].pc = "floorWait" -> [thr[c] EXCEPT !.pc = "ready"]
                   [] thr[c].pc = "retryAfterWait" -> NextAttempt(thr[c])
                   [] OTHER -> NextAttempt([thr[c] EXCEPT
                                   !.delay = thr[c].delay * thr[c].backoffMultiplier])]
    /\ UNCHANGED <<now, requestTimes, lastRequestTime, requestCount, dispatched, started, budget, req, apiKey, pure, page>>

\* apiCall() is invoked
Dispatch(c) ==
    /\ thr[c].pc = "ready"
    /\ thr' = [thr EXCEPT ![c] = [thr[c] EXCEPT !.pc = "call", !.wake = now + Latency,
                                                 !.dispatchedAt = now,
                                                 !.calls = thr[c].calls + 1]]
    /\ dispatched' = Append(dispatched, now)
    /\ UNCHANGED <<now, requestTimes, lastRequestTime, requestCount, started, budget, req, apiKey, pure, page>>

\* the rest of the try block, for a call that returned a Response
Handle(f, response) ==
    IF response.status = 429
    THEN [f EXCEPT !.pc = "retryAfterWait",
                   !.wake = now + SetTimeout(GetRetryAfterDelay(response))]
    ELSE IF response.status = 403 /\ Includes(response.message, "quota")
    THEN Catch([f EXCEPT !.quotaSeen = TRUE], QuotaMessage)
    ELSE IF response.status >= 200 /\ response.status <= 299
    THEN [f EXCEPT !.pc = "done",
                   !.result = [hasData |-> TRUE, data |-> response.items, error |-> <<>>,
                               status |-> response.status]]
    ELSE Catch(f, IF response.message # <<>> THEN response.message
                  ELSE HttpMessage(response.status))

\* history: the answer of the attempt
Answered(f, response) ==
    [f EXCEPT !.answer = response, !.settledAt = now,
              !.transient = @ + (IF response.status = 0 \/ response.status >= 500
                                 THEN 1 ELSE 0)]

\* a gateway that would record successful calls only
SettleRecordingSuccess(c, response) ==
    /\ thr[c].pc = "call"
    /\ thr[c].wake <= now
    /\ IF response.status = 0
       THEN /\ thr' = [thr EXCEPT ![c] = Catch(Answered(thr[c], response), response.message)]
            /\ UNCHANGED <<requestTimes, lastRequestTime, requestCount>>
       ELSE /\ thr' = [thr EXCEPT ![c] = Handle(Answered(thr[c], response), response)]
            /\ IF response.status >= 200 /\ response.status <= 299
               THEN /\ lastRequestTime' = now
                    /\ requestTimes' = Append(requestTimes, now)
                    /\ requestCount' = requestCount + 1
               ELSE UNCHANGED <<requestTimes, lastRequestTime, requestCount>>
    /\ UNCHANGED <<now, dispatched, started, budget, req, apiKey, pure, page>>

\* apiCall() settles: updateRequestTracking and the rest of the iteration
Settle(c, response) ==
    /\ thr[c].pc = "call"
    /\ thr[c].wake <= now
    /\ IF response.status = 0
       THEN /\ thr' = [thr EXCEPT ![c] = Catch(Answered(thr[c], response), response.message)]
            /\ UNCHANGED <<requestTimes, lastRequestTime, requestCount>>
       ELSE /\ lastRequestTime' = now
            /\ requestTimes' = Append(requestTimes, now)
            /\ requestCount' = requestCount + 1
            /\ thr' = [thr EXCEPT ![c] = Handle(Answered(thr[c], response), response)]
    /\ UNCHANGED <<now, dispatched, started, budget, req, apiKey, pure, page>>

\* getStats()
getStats ==
    [totalRequests |-> requestCount, requestsInLastMinute |-> Len(requestTimes),
     lastRequestTime |-> lastRequestTime]

Waiting(c) == thr[c].pc \in {"limitWait", "floorWait", "retryAfterWait", "backoffWait", "call"}

Runnable(c) ==
    \/ thr[c].pc \in {"loop", "ready", "done"}
    \/ Waiting(c) /\ thr[c].wake <= now

\* time passes until the next timer or response is due
Tick ==
    /\ \A c \in Callers : ~Runnable(c)
    /\ \E c \in Callers : Waiting(c)
    /\ now' = CHOOSE t \in {thr[c].wake : c \in {d \in Callers : Waiting(d)}} :
                 \A d \in Callers : Waiting(d) => t <= thr[d].wake
    /\ UNCHANGED <<requestTimes, lastRequestTime, requestCount, thr, dispatched, started, budget, req, apiKey, pure, page>>

----------------------------------------------------------------------------
(* route.ts: the request handler *)

\* a handler that would go on without the key
MissingKeyIgnored(key) == FALSE

\* !apiKey in scrapeYouTubeVideos
MissingKey(key) == ~key

\* the handler up to fetchYouTubeVideos' first search call
POST(c, body) ==
    /\ req[c].pc = "idle"
    /\ thr[c].pc = "idle"
    /\ IF body.type = "not-json"
       THEN /\ req' = [req EXCEPT ![c] = Respond([@ EXCEPT !.body = body], 500, <<>>,
                                                    "Failed to fetch videos")]
            /\ UNCHANGED thr
       ELSE IF InvalidPrompt(body)
       THEN /\ req' = [req EXCEPT ![c] = Respond([@ EXCEPT !.body = body], 400, <<>>,
                                                    "Valid prompt is required")]
            /\ UNCHANGED thr
       ELSE IF MissingKey(apiKey)
       THEN /\ req' = [req EXCEPT ![c] =
                         Respond([@ EXCEPT !.body = body, !.query = body.text], 200,
                                 sortVideosByDifficulty(getFallbackVideos(body.text)), "")]
            /\ UNCHANGED thr
       ELSE /\ req' = [req EXCEPT ![c] =
                         [@ EXCEPT !.pc = "search", !.body = body, !.query = body.text,
                                   !.variant = 1, !.calls = 1]]
            /\ thr' = [thr EXCEPT ![c] = Enter(@)]
    /\ UNCHANGED <<now, requestTimes, lastRequestTime, requestCount, dispatched, started,
                   budget, apiKey, pure, page>>

\* history: what the call that just returned did
Counted(r, f) ==
    [r EXCEPT !.failed = @ + (IF f.result.status = 500 THEN 1 ELSE 0),
              !.quota = @ + (IF f.quotaSeen THEN 1 ELSE 0),
              !.responses = IF r.recording /\ f.calls > 0 THEN Append(@, f.answer) ELSE @]

\* a loop that would be left at the first call that failed
NextVariantUntilFailure(r) ==
    IF r.variant < Len(crashCourseQueries(r.query)) /\ r.failed = 0
    THEN [r EXCEPT !.pc = "search", !.variant = @ + 1, !.calls = @ + 1]
    ELSE Finish(r)

\* the end of one iteration of the loop over crashCourseQueries
NextVariant(r) ==
    IF r.variant < Len(crashCourseQueries(r.query))
    THEN [r EXCEPT !.pc = "search", !.variant = @ + 1, !.calls = @ + 1]
    ELSE Finish(r)

\* the search call of the current variant returned
SearchReturns(c) ==
    /\ req[c].pc = "search"
    /\ thr[c].pc = "done"
    /\ LET searchResult == thr[c].result
           r == Counted(req[c], thr[c])
           after == IF searchResult.hasData /\ Len(searchResult.data) > 0
                    THEN [r EXCEPT !.pc = "details", !.calls = @ + 1]
                    ELSE NextVariant(r)
       IN  /\ req' = [req EXCEPT ![c] = after]
           /\ thr' = [thr EXCEPT ![c] = IF after.pc = "responded" THEN IdleFrame ELSE Enter(@)]
    /\ UNCHANGED <<now, requestTimes, lastRequestTime, requestCount, dispatched, started,
                   budget, apiKey, pure, page>>

\* the details call of the current variant returned
DetailsReturns(c) ==
    /\ req[c].pc = "details"
    /\ thr[c].pc = "done"
    /\ LET detailsResult == thr[c].result
           r == Counted(req[c], thr[c])
           after == IF detailsResult.hasData
                    THEN NextVariant(SelectBest(
                             [r EXCEPT !.returned = @ \cup Range(detailsResult.data)],
                             detailsResult.data, 1))
                    ELSE NextVariant(r)
       IN  /\ req' = [req EXCEPT ![c] = after]
           /\ thr' = [thr EXCEPT ![c] = IF after.pc = "responded" THEN IdleFrame ELSE Enter(@)]
    /\ UNCHANGED <<now, requestTimes, lastRequestTime, requestCount, dispatched, started,
                   budget, apiKey, pure, page>>

\* the provider answers a call of the pipeline: during one throttle() invocation
\* it answers every attempt alike
Answer(c, response) ==
    /\ req[c].pc \in {"search", "details"}
    /\ response \in (IF req[c].pc = "search" THEN SearchResponses ELSE DetailsResponses)
    /\ thr[c].calls > 1 => response = thr[c].answer
    /\ Settle(c, response)

----------------------------------------------------------------------------
(* page.tsx and PromptInput.tsx: the page that posts the prompts *)

NoError == <<"null">>

\* new Error(`HTTP error! status: ${response.status}`).message
HttpError(status) == <<"HTTP error! status:", status>>

\* the message of the TypeError of a fetch that was rejected
FetchRejected == <<"Failed to fetch">>

\* videos of a response body, told apart by the prompt they were made for
VideosFor(prompt) == <<[id |-> "video", prompt |-> prompt]>>

\* what the page can receive for a POST of a prompt: a list of videos, an
\* empty list, an error status of POST, a rejected fetch
PageResponses(prompt) ==
    { [rejected |-> FALSE, ok |-> TRUE, status |-> 200, videos |-> VideosFor(prompt), error |-> NoError],
      [rejected |-> FALSE, ok |-> TRUE, status |-> 200, videos |-> <<>>, error |-> NoError],
      [rejected |-> FALSE, ok |-> FALSE, status |-> 500, videos |-> <<>>, error |-> <<"Failed to fetch videos">>],
      [rejected |-> TRUE, ok |-> FALSE, status |-> 0, videos |-> <<>>, error |-> NoError] }

\* the prompts of the example cards
ExamplePrompts ==
    { <<"C", "r", "e", "a", "t", "e", " ", "a", " ", "c", "o", "u", "r", "s", "e", " ", "o", "n", " ", "H", "T", "M", "L", ",", " ", "C", "S", "S", ",", " ", "J", "a", "v", "a", "S", "c", "r", "i", "p", "t", ",", " ", "a", "n", "d", " ", "m", "o", "d", "e", "r", "n", " ", "f", "r", "a", "m", "e", "w", "o", "r", "k", "s">>,
      <<"C", "r", "e", "a", "t", "e", " ", "a", " ", "c", "o", "u", "r", "s", "e", " ", "o", "n", " ", "P", "y", "t", "h", "o", "n", ",", " ", "p", "a", "n", "d", "a", "s", ",", " ", "a", "n", "d", " ", "m", "a", "c", "h", "i", "n", "e", " ", "l", "e", "a", "r", "n", "i", "n", "g", " ", "f", "u", "n", "d", "a", "m", "e", "n", "t", "a", "l", "s">>,
      <<"C", "r", "e", "a", "t", "e", " ", "a", " ", "c", "o", "u", "r", "s", "e", " ", "o", "n", " ", "S", "E", "O", ",", " ", "s", "o", "c", "i", "a", "l", " ", "m", "e", "d", "i", "a", ",", " ", "a", "n", "d", " ", "c", "o", "n", "t", "e", "n", "t", " ", "m", "a", "r", "k", "e", "t", "i", "n", "g", " ", "s", "t", "r", "a", "t", "e", "g", "i", "e", "s">>,
      <<"C", "r", "e", "a", "t", "e", " ", "a", " ", "c", "o", "u", "r", "s", "e", " ", "o", "n", " ", "p", "h", "o", "t", "o", "g", "r", "a", "p", "h", "y", " ", "b", "a", "s", "i", "c", "s", " ", "a", "n", "d", " ", "t", "e", "c", "h", "n", "i", "q", "u", "e", "s">> }

\* texts typed into the textarea
TypedPrompts == { <<" ", "G", "o", " ">>, <<"R", "e", "a", "c", "t">>, <<" ", " ", "\n">> }

WhiteSpace == {" ", "\n", "\t"}

\* String.prototype.trim
RECURSIVE Trim(_)
Trim(text) ==
    IF text = <<>> THEN text
    ELSE IF text[1] \in WhiteSpace THEN Trim(Tail(text))
    ELSE IF text[Len(text)] \in WhiteSpace THEN Trim(SubSeq(text, 1, Len(text) - 1))
    ELSE text

\* the number of invocations of handlePromptSubmit explored
MaxSubmissions == 3

\* the state of Home and of PromptInput, and the invocations of
\* handlePromptSubmit in the order they were made
IdlePage ==
    [videos |-> <<>>, isLoading |-> FALSE, error |-> NoError, hasSearched |-> FALSE,
     prompt |-> <<>>, inputLoading |-> FALSE, calls |-> <<>>,
     \* history: an invocation was made while an earlier one was not over
     overlapped |-> FALSE]

\* an invocation is over
Over(call) == call.pc = "done"

\* handlePromptSubmit up to await fetch
handlePromptSubmit(pg, prompt, from) ==
    [pg EXCEPT !.videos = <<>>, !.error = NoError, !.isLoading = TRUE, !.hasSearched = TRUE,
               !.calls = Append(@, [prompt |-> prompt, from |-> from, pc |-> "fetch",
                                    data |-> <<>>,
                                    \* history: what the invocation set
                                    videos |-> <<>>, error |-> NoError]),
               !.overlapped = @ \/ \E i \in 1..Len(pg.calls) : ~Over(pg.calls[i])]

\* the finally block of handlePromptSubmit and, for an invocation made by
\* PromptInput, what handleSubmit does after await onSubmit
Finally(pg, i) ==
    LET over == [pg EXCEPT !.calls[i].pc = "done", !.isLoading = FALSE]
    IN  IF pg.calls[i].from = "input"
        THEN [over EXCEPT !.prompt = <<>>, !.inputLoading = FALSE]
        ELSE over

\* the catch block of handlePromptSubmit
CatchSubmit(pg, i, message) ==
    Finally([pg EXCEPT !.error = message, !.calls[i].error = message], i)

\* setVideos(data.videos || [])
SetVideos(pg, i, videos) ==
    Finally([pg EXCEPT !.videos = videos, !.calls[i].videos = videos], i)

----------------------------------------------------------------------------
(* The gateway under callers that call it back to back *)

\* the k-th recorded time of a caller that made k successful calls back to back
Recorded(i) == i * (defaultDelay + Latency)

\* lengths of the initial history
Histories == {0, maxRequestsPerMinute - 1}

InitGateway ==
    \E k \in Histories :
        /\ now = Recorded(k)
        /\ requestTimes = [i \in 1..k |-> Recorded(i)]
        /\ lastRequestTime = Recorded(k)
        /\ requestCount = k
        /\ dispatched = [i \in 1..k |-> Recorded(i) - Latency]
        /\ started = 0
        /\ budget = MaxAttempts
        /\ thr = [c \in Callers |-> IdleFrame]
        /\ req = [c \in Callers |-> IdleRequest]
        /\ apiKey = TRUE
        /\ pure = NoPure
        /\ page = IdlePage

NextGateway ==
    \/ \E c \in Callers : Invoke(c)
    \/ \E c \in Callers : WaitForRateLimit(c)
    \/ \E c \in Callers : TimerFires(c)
    \/ \E c \in Callers : Dispatch(c)
    \/ \E c \in Callers, r \in GatewayResponses : Settle(c, r)
    \/ \E c \in Callers : Resume(c)
    \/ Tick

SpecGateway == InitGateway /\ [][NextGateway]_vars

\* one caller alone: each call is made after the previous one returned
NextSequential ==
    \/ Invoke("a")
    \/ WaitForRateLimit("a")
    \/ TimerFires("a")
    \/ Dispatch("a")
    \/ \E r \in GatewayResponses : Settle("a", r)
    \/ Resume("a")
    \/ Tick

SpecSequential == InitGateway /\ [][NextSequential]_vars

\* one caller, started from the constructed throttler, whose calls all succeed
InitCold ==
    /\ now = 0
    /\ requestTimes = <<>>
    /\ lastRequestTime = 0
    /\ requestCount = 0
    /\ dispatched = <<>>
    /\ started = 0
    /\ budget = maxRequestsPerMinute
    /\ thr = [c \in Callers |-> IdleFrame]
    /\ req = [c \in Callers |-> IdleRequest]
    /\ apiKey = TRUE
    /\ pure = NoPure
    /\ page = IdlePage

NextCold ==
    \/ Invoke("a")
    \/ WaitForRateLimit("a")
    \/ TimerFires("a")
    \/ Dispatch("a")
    \/ Settle("a", RespOk(<<>>))
    \/ Resume("a")
    \/ Tick

SpecCold == InitCold /\ [][NextCold]_vars

\* every initial history of InitGateway is a state of SpecCold
HistoryState(k) ==
    /\ now = Recorded(k)
    /\ requestTimes = [i \in 1..k |-> Recorded(i)]
    /\ lastRequestTime = Recorded(k)
    /\ requestCount = k
    /\ dispatched = [i \in 1..k |-> Recorded(i) - Latency]
    /\ thr = [c \in Callers |-> IdleFrame]

HistoryNotReached == ~HistoryState(maxRequestsPerMinute - 1)

----------------------------------------------------------------------------
(* The page and the invocations of handlePromptSubmit it has outstanding *)

\* onChange of the textarea, which is disabled while PromptInput is loading
TypePrompt(text) ==
    /\ ~page.inputLoading
    /\ Len(page.calls) < MaxSubmissions
    /\ page.prompt # text
    /\ page' = [page EXCEPT !.prompt = text]
    /\ UNCHANGED <<now, requestTimes, lastRequestTime, requestCount, thr, dispatched,
                   started, budget, req, apiKey, pure>>

\* PromptInput.handleSubmit, by the button or by Ctrl+Enter
handleSubmit ==
    /\ ~page.inputLoading
    /\ Len(page.calls) < MaxSubmissions
    /\ page' = IF Trim(page.prompt) = <<>>
               THEN page
               ELSE handlePromptSubmit([page EXCEPT !.inputLoading = TRUE],
                                       Trim(page.prompt), "input")
    /\ UNCHANGED <<now, requestTimes, lastRequestTime, requestCount, thr, dispatched,
                   started, budget, req, apiKey, pure>>

\* the examples section is rendered
ExamplesShown(pg) == pg.videos = <<>> /\ ~pg.isLoading /\ pg.error = NoError

\* onClick of an example card
ClickExample(prompt) ==
    /\ ExamplesShown(page)
    /\ Len(page.calls) < MaxSubmissions
    /\ page' = handlePromptSubmit(page, prompt, "card")
    /\ UNCHANGED <<now, requestTimes, lastRequestTime, requestCount, thr, dispatched,
                   started, budget, req, apiKey, pure>>

\* await fetch(...) of the i-th invocation is over
FetchSettles(i, response) ==
    /\ i \in 1..Len(page.calls)
    /\ page.calls[i].pc = "fetch"
    /\ response \in PageResponses(page.calls[i].prompt)
    /\ page' = IF response.rejected THEN CatchSubmit(page, i, FetchRejected)
               ELSE IF ~response.ok THEN CatchSubmit(page, i, HttpError(response.status))
               ELSE [page EXCEPT !.calls[i].pc = "json", !.calls[i].data = response]
    /\ UNCHANGED <<now, requestTimes, lastRequestTime, requestCount, thr, dispatched,
                   started, budget, req, apiKey, pure>>

\* await response.json() of the i-th invocation is over
JsonSettles(i) ==
    /\ i \in 1..Len(page.calls)
    /\ page.calls[i].pc = "json"
    /\ page' = IF page.calls[i].data.error # NoError
               THEN CatchSubmit(page, i, page.calls[i].data.error)
               ELSE SetVideos(page, i, page.calls[i].data.videos)
    /\ UNCHANGED <<now, requestTimes, lastRequestTime, requestCount, thr, dispatched,
                   started, budget, req, apiKey, pure>>

InitPage ==
    /\ HistoryState(0)
    /\ started = 0
    /\ budget = 0
    /\ req = [c \in Callers |-> IdleRequest]
    /\ apiKey = TRUE
    /\ pure = NoPure
    /\ page = IdlePage

NextPage ==
    \/ \E text \in TypedPrompts : TypePrompt(text)
    \/ handleSubmit
    \/ \E prompt \in ExamplePrompts : ClickExample(prompt)
    \/ \E i \in 1..MaxSubmissions : \E response \in PageResponses(<<>>) \cup UNION {PageResponses(p) : p \in ExamplePrompts \cup {Trim(t) : t \in TypedPrompts}} :
           FetchSettles(i, response)
    \/ \E i \in 1..MaxSubmissions : JsonSettles(i)

SpecPage == InitPage /\ [][NextPage]_vars

----------------------------------------------------------------------------
(* One caller whose calls the provider answers in every way the gateway    *)
(* tells apart: success, 429 with and without a Retry-After header, 403    *)
(* with and without a quota body, client and server errors with and        *)
(* without an error message in the body, and a network error.              *)

RespNotFound == Response(404, <<>>, NoHeader, <<>>)
RespUnavailable == Response(503, <<>>, NoHeader, <<>>)

RetryResponses ==
    { RespOk(<<>>), Resp429, Resp429After(<<"2">>), Resp429After(<<"0">>),
      \* Retry-After in the form of a date
      Resp429After(<<"W", "e", "d", ",", " ", "2", "1", " ", "O", "c", "t", " ", "2", "0", "2", "6", " ", "0", "7", ":", "2", "8", ":", "0", "0", " ", "G", "M", "T">>),
      RespQuota, RespForbidden, RespBadRequest, RespServerError, RespNetworkError,
      Response(400, <<"Invalid", "argument">>, NoHeader, <<>>),
      Response(401, <<>>, NoHeader, <<>>),
      RespNotFound, RespUnavailable }

NextRetry ==
    \/ Invoke("a")
    \/ WaitForRateLimit("a")
    \/ TimerFires("a")
    \/ Dispatch("a")
    \/ \E r \in RetryResponses : Settle("a", r)
    \/ Resume("a")
    \/ Tick

SpecRetry == InitGateway /\ [][NextRetry]_vars

----------------------------------------------------------------------------
(* One throttle() invocation whose sleeps and calls all complete *)

\* attempts enough for twice the loop of one invocation
OnceBudget == 2 * (YouTubeMaxRetries + 1)

InitOnce ==
    \E k \in Histories :
        /\ HistoryState(k)
        /\ started = 0
        /\ budget = OnceBudget
        /\ req = [c \in Callers |-> IdleRequest]
        /\ apiKey = TRUE
        /\ pure = NoPure
        /\ page = IdlePage

\* the one invocation
InvokeOnce == started = 0 /\ Invoke("a")

NextOnce ==
    \/ InvokeOnce
    \/ WaitForRateLimit("a")
    \/ TimerFires("a")
    \/ Dispatch("a")
    \/ \E r \in RetryResponses : Settle("a", r)
    \/ Resume("a")
    \/ Tick

\* every timer fires and every call is answered
SpecOnce == InitOnce /\ [][NextOnce]_vars /\ WF_vars(NextOnce)

----------------------------------------------------------------------------
(* One POST request against the provider *)

\* enough attempts for every call of one request
PipelineBudget == 2 * Len(crashCourseQueries(<<>>)) * (YouTubeMaxRetries + 1)

InitPipeline ==
    /\ now = 0
    /\ requestTimes = <<>>
    /\ lastRequestTime = 0
    /\ requestCount = 0
    /\ dispatched = <<>>
    /\ started = 0
    /\ budget = PipelineBudget
    /\ thr = [c \in Callers |-> IdleFrame]
    /\ req = [c \in Callers |-> IdleRequest]
    /\ apiKey \in BOOLEAN
    /\ pure = NoPure
    /\ page = IdlePage

NextPipeline ==
    \/ \E body \in Bodies : POST("a", body)
    \/ WaitForRateLimit("a")
    \/ TimerFires("a")
    \/ Dispatch("a")
    \/ \E r \in SearchResponses \cup DetailsResponses : Answer("a", r)
    \/ SearchReturns("a")
    \/ DetailsReturns("a")
    \/ Tick

SpecPipeline == InitPipeline /\ [][NextPipeline]_vars

----------------------------------------------------------------------------
(* The same request made twice: caller "a" makes a request from a gateway  *)
(* with or without earlier calls in its window, and once it is answered    *)
(* caller "b" makes the request again and the provider gives its calls the *)
(* answers it gave to the calls of "a".                                    *)

\* lengths of the initial history: none, and four calls below the cap
ReplayHistories == {0, maxRequestsPerMinute - 4}

ReplaySearchResponses == {RespOk(<<1, 2>>), RespOk(<<>>)}

ReplayDetailsResponses == {RespOk(<<1>>), RespOk(<<2, 3>>), RespNetworkError}

InitReplay ==
    \E k \in ReplayHistories :
        /\ now = Recorded(k)
        /\ requestTimes = [i \in 1..k |-> Recorded(i)]
        /\ lastRequestTime = Recorded(k)
        /\ requestCount = k
        /\ dispatched = [i \in 1..k |-> Recorded(i) - Latency]
        /\ started = 0
        /\ budget = 2 * PipelineBudget
        /\ thr = [c \in Callers |-> IdleFrame]
        /\ req = [c \in Callers |-> [IdleRequest EXCEPT !.recording = TRUE]]
        /\ apiKey \in BOOLEAN
        /\ pure = NoPure
        /\ page = IdlePage

\* the request of "a" is made again
PostAgain ==
    /\ req["a"].pc = "responded"
    /\ POST("b", req["a"].body)

\* the provider answers a call of "b" as it answered that call of "a"
AnswerAgain ==
    /\ Len(req["b"].responses) < Len(req["a"].responses)
    /\ Answer("b", req["a"].responses[Len(req["b"].responses) + 1])

NextReplay ==
    \/ \E body \in Bodies : POST("a", body)
    \/ PostAgain
    \/ \E c \in Callers : WaitForRateLimit(c)
    \/ \E c \in Callers : TimerFires(c)
    \/ \E c \in Callers : Dispatch(c)
    \/ \E r \in ReplaySearchResponses \cup ReplayDetailsResponses : Answer("a", r)
    \/ AnswerAgain
    \/ \E c \in Callers : SearchReturns(c)
    \/ \E c \in Callers : DetailsReturns(c)
    \/ Tick

SpecReplay == InitReplay /\ [][NextReplay]_vars

----------------------------------------------------------------------------
(* The segmenters applied on their own: splitVideoIntoSegments on a video  *)
(* of the provider and createEqualSegments on a total duration.  The        *)
(* functions keep no state, so a behaviour applies one of them once and    *)
(* pure holds the arguments and the result.                                *)

MaxTotalSeconds == 24

\* the total durations explored, in seconds
TotalSeconds == 0..MaxTotalSeconds

\* descriptions with chapter markers in each style the extractor knows, with
\* a marker at 0:00, and without markers
Descriptions ==
    { <<"0", ":", "0", "2", " ", "S", "e", "t", "u", "p", "\n", "0", ":", "0", "4", " ", "H", "o", "o", "k", "s">>,
      <<"I", "n", "t", "r", "o", "\n", "0", ":", "0", "3", " ", "-", " ", "D", "e", "p", "l", "o", "y">>,
      <<"[", "0", ":", "0", "1", "]", " ", "B", "a", "s", "i", "c", "s">>,
      <<"0", ":", "0", "0", " ", "I", "n", "t", "r", "o", "\n", "0", ":", "0", "5", " ", "S", "t", "a", "t", "e">>,
      <<"N", "o", " ", "c", "h", "a", "p", "t", "e", "r", "s">> }

Queries == { <<"R", "e", "a", "c", "t">>, <<"G", "o">> }

InitSegments ==
    /\ now = 0
    /\ requestTimes = <<>>
    /\ lastRequestTime = 0
    /\ requestCount = 0
    /\ dispatched = <<>>
    /\ started = 0
    /\ budget = 0
    /\ thr = [c \in Callers |-> IdleFrame]
    /\ req = [c \in Callers |-> IdleRequest]
    /\ apiKey = TRUE
    /\ pure = NoPure
    /\ page = IdlePage

\* splitVideoIntoSegments(video, query) for a video with the given description
\* whose contentDetails.duration says totalSeconds
SplitVideo(description, totalSeconds, query) ==
    /\ pure = NoPure
    /\ LET video == Video("video", <<"C", "r", "a", "s", "h", " ", "C", "o", "u", "r", "s", "e">>, description,
                          formatSecondsToDuration(totalSeconds), <<"1">>)
       IN  pure' = [fn |-> "splitVideoIntoSegments",
                    totalSeconds |-> parseDurationToSeconds(video.duration),
                    timestamps |-> Len(extractTimestampsFromDescription(video.description)),
                    segments |-> splitVideoIntoSegments(video, query)]
    /\ UNCHANGED <<now, requestTimes, lastRequestTime, requestCount, thr, dispatched,
                   started, budget, req, apiKey, page>>

\* createEqualSegments(totalSeconds, query)
EqualSegments(totalSeconds, query) ==
    /\ pure = NoPure
    /\ pure' = [fn |-> "createEqualSegments",
                totalSeconds |-> totalSeconds,
                timestamps |-> 0,
                segments |-> createEqualSegments(totalSeconds, query)]
    /\ UNCHANGED <<now, requestTimes, lastRequestTime, requestCount, thr, dispatched,
                   started, budget, req, apiKey, page>>

NextSegments ==
    \/ \E description \in Descriptions, totalSeconds \in TotalSeconds, query \in Queries :
           SplitVideo(description, totalSeconds, query)
    \/ \E totalSeconds \in TotalSeconds, query \in Queries :
           EqualSegments(totalSeconds, query)

SpecSegments == InitSegments /\ [][NextSegments]_vars

----------------------------------------------------------------------------
(* The timestamp extractor and the segment builder applied on their own    *)

\* the number of lines of the descriptions explored
MaxLines == 3

\* the number of markers of the lists given to createSegmentsFromTimestamps
MaxMarkers == 3

\* one line of a description.  simple marks a line of the form 'M:SS Title',
\* for which time and title are the offset in seconds and the title written
\* on the line
DescriptionLine(text, simple, time, title) ==
    [text |-> text, simple |-> simple, time |-> time, title |-> title]

Lines ==
    { DescriptionLine(<<"0", ":", "0", "0", " ", "I", "n", "t", "r", "o">>, TRUE, 0, <<"I", "n", "t", "r", "o">>),
      DescriptionLine(<<"5", ":", "3", "0", " ", "S", "e", "t", "u", "p">>, TRUE, 330, <<"S", "e", "t", "u", "p">>),
      DescriptionLine(<<"1", "2", ":", "0", "0", " ", "A", "d", "v", "a", "n", "c", "e", "d">>, TRUE, 720, <<"A", "d", "v", "a", "n", "c", "e", "d">>),
      DescriptionLine(<<"5", ":", "3", "0", " ", "-", " ", "H", "o", "o", "k", "s">>, FALSE, 0, <<>>),
      DescriptionLine(<<"[", "1", "2", ":", "0", "0", "]", " ", "D", "e", "p", "l", "o", "y">>, FALSE, 0, <<>>),
      DescriptionLine(<<"1", ":", "0", "2", ":", "0", "3", " ", "D", "e", "e", "p">>, FALSE, 0, <<>>),
      DescriptionLine(<<"S", "e", "e", " ", "t", "h", "e", " ", "d", "o", "c", "s">>, FALSE, 0, <<>>) }

\* the lines joined by line terminators
RECURSIVE JoinLines(_, _)
JoinLines(lines, k) ==
    IF k > Len(lines) THEN <<>>
    ELSE (IF k > 1 THEN <<"\n">> ELSE <<>>) \o lines[k].text \o JoinLines(lines, k + 1)

LineLists == UNION {[1..n -> Lines] : n \in 1..MaxLines}

\* the markers and the total durations given to createSegmentsFromTimestamps
Markers ==
    { [time |-> 0, title |-> <<"I", "n", "t", "r", "o">>],
      [time |-> 330, title |-> <<"S", "e", "t", "u", "p">>],
      [time |-> 720, title |-> <<"A", "d", "v", "a", "n", "c", "e", "d">>] }

MarkerLists == UNION {[1..n -> Markers] : n \in 1..MaxMarkers}

MarkerTotals == {0, 600, 900}

InitMarkers == InitSegments

\* extractTimestampsFromDescription(description); matches is the timestamps
\* array before it is sorted and filtered
Extract(lines) ==
    /\ pure = NoPure
    /\ pure' = [fn |-> "extractTimestampsFromDescription",
                lines |-> lines,
                matches |-> AllMatches(JoinLines(lines, 1), 1),
                timestamps |-> extractTimestampsFromDescription(JoinLines(lines, 1))]
    /\ UNCHANGED <<now, requestTimes, lastRequestTime, requestCount, thr, dispatched,
                   started, budget, req, apiKey, page>>

\* createSegmentsFromTimestamps(timestamps, totalSeconds)
CreateSegments(timestamps, totalSeconds) ==
    /\ pure = NoPure
    /\ pure' = [fn |-> "createSegmentsFromTimestamps",
                timestamps |-> timestamps,
                totalSeconds |-> totalSeconds,
                segments |-> createSegmentsFromTimestamps(timestamps, totalSeconds)]
    /\ UNCHANGED <<now, requestTimes, lastRequestTime, requestCount, thr, dispatched,
                   started, budget, req, apiKey, page>>

NextMarkers ==
    \/ \E lines \in LineLists : Extract(lines)
    \/ \E timestamps \in MarkerLists, totalSeconds \in MarkerTotals :
           CreateSegments(timestamps, totalSeconds)

SpecMarkers == InitMarkers /\ [][NextMarkers]_vars

----------------------------------------------------------------------------
(* The duration codec applied on its own: formatSecondsToDuration on every   *)
(* number of seconds up to two hours and more, parseDurationToSeconds and    *)
(* isLongVideo on strings PT[nH][nM][nS] with every choice of groups, on     *)
(* strings the pattern matches in part and on strings it does not match.     *)

MaxDurationSeconds == 7325

\* the digits of one group of a duration string, <<>> for a group left out
HourDigits == { <<>>, <<"0">>, <<"1">>, <<"2">> }
MinuteDigits == { <<>>, <<"0">>, <<"0", "5">>, <<"2", "9">>, <<"3", "0">>, <<"5", "9">>, <<"9", "0">> }
SecondDigits == { <<>>, <<"0">>, <<"7">>, <<"5", "9">>, <<"6", "0">>, <<"1", "8", "0", "0">> }

DurationGroupText(digits, unit) == IF digits = <<>> THEN <<>> ELSE digits \o <<unit>>

\* a duration string with its form: "valid" for PT[nH][nM][nS], "partial" for
\* a string that is not of that form but holds a PT the pattern matches,
\* "nomatch" for a string without PT
DurationInput(text, form) == [text |-> text, form |-> form]

ValidDurations ==
    { DurationInput(<<"P", "T">> \o DurationGroupText(h, "H") \o DurationGroupText(m, "M")
                           \o DurationGroupText(s, "S"), "valid") :
        h \in HourDigits, m \in MinuteDigits, s \in SecondDigits }

OtherDurations ==
    { DurationInput(<<"P", "T", "1", "H", "3", "0">>, "partial"), DurationInput(<<"P", "T", "4", "5", "X">>, "partial"),
      DurationInput(<<"P", "T", "3", "0", "S", "4", "5", "M">>, "partial"), DurationInput(<<"P", "1", "D", "T", "2", "H">>, "nomatch"),
      DurationInput(<<"x", "P", "T", "4", "5", "M">>, "partial"), DurationInput(<<"p", "t", "4", "5", "m">>, "nomatch"),
      DurationInput(<<"4", "5", ":", "0", "0">>, "nomatch"), DurationInput(<<>>, "nomatch") }

DurationInputs == ValidDurations \cup OtherDurations

InitDuration == InitSegments

\* formatSecondsToDuration(seconds) and the parse of its result
FormatSeconds(seconds) ==
    /\ pure = NoPure
    /\ pure' = [fn |-> "formatSecondsToDuration", seconds |-> seconds,
                duration |-> formatSecondsToDuration(seconds),
                parsed |-> parseDurationToSeconds(formatSecondsToDuration(seconds))]
    /\ UNCHANGED <<now, requestTimes, lastRequestTime, requestCount, thr, dispatched,
                   started, budget, req, apiKey, page>>

\* the value parsed from a duration string, formatted and parsed again
Reparsed(seconds) == parseDurationToSeconds(formatSecondsToDuration(seconds))

\* parseDurationToSeconds(duration), its result formatted and parsed again
ParseDuration(input) ==
    /\ pure = NoPure
    /\ pure' = [fn |-> "parseDurationToSeconds", duration |-> input.text,
                form |-> input.form,
                seconds |-> parseDurationToSeconds(input.text),
                reparsed |-> Reparsed(parseDurationToSeconds(input.text))]
    /\ UNCHANGED <<now, requestTimes, lastRequestTime, requestCount, thr, dispatched,
                   started, budget, req, apiKey, page>>

\* isLongVideo(duration) next to parseDurationToSeconds(duration)
IsLongVideo(input) ==
    /\ pure = NoPure
    /\ pure' = [fn |-> "isLongVideo", duration |-> input.text, form |-> input.form,
                seconds |-> parseDurationToSeconds(input.text),
                long |-> isLongVideo(input.text)]
    /\ UNCHANGED <<now, requestTimes, lastRequestTime, requestCount, thr, dispatched,
                   started, budget, req, apiKey, page>>

NextDuration ==
    \/ \E seconds \in 0..MaxDurationSeconds : FormatSeconds(seconds)
    \/ \E input \in DurationInputs : ParseDuration(input)
    \/ \E input \in DurationInputs : IsLongVideo(input)

SpecDuration == InitDuration /\ [][NextDuration]_vars

----------------------------------------------------------------------------
(* The difficulty classifier applied on its own: calculateDifficultyScore   *)
(* on titles and descriptions put together from phrases with and without    *)
(* keywords of the three sets, sortVideosByDifficulty on every list of up   *)
(* to MaxVideos of five videos.                                             *)

MaxVideos == 3

\* a phrase and the keyword sets of which it contains a keyword
Phrase(text, beginner, expert, intermediate) ==
    [text |-> text, beginner |-> beginner, expert |-> expert, intermediate |-> intermediate]

Phrases ==
    { Phrase(<<"R", "e", "a", "c", "t", " ", "h", "o", "o", "k", "s">>, FALSE, FALSE, FALSE),
      Phrase(<<"I", "N", "T", "R", "O", "D", "U", "C", "T", "I", "O", "N", " ", "t", "o", " ", "R", "e", "a", "c", "t">>, TRUE, FALSE, FALSE),
      Phrase(<<"L", "e", "a", "r", "n", "i", "n", "g", " ", "b", "y", " ", "d", "o", "i", "n", "g">>, TRUE, FALSE, FALSE),
      Phrase(<<"F", "o", "r", " ", "P", "r", "o", "f", "e", "s", "s", "i", "o", "n", "a", "l", " ", "t", "e", "a", "m", "s">>, FALSE, TRUE, FALSE),
      Phrase(<<"S", "c", "a", "l", "a", "b", "l", "e", " ", "A", "r", "c", "h", "i", "t", "e", "c", "t", "u", "r", "e">>, FALSE, TRUE, FALSE),
      Phrase(<<"A", "d", "v", "a", "n", "c", "e", "d", " ", "p", "a", "t", "t", "e", "r", "n", "s">>, FALSE, FALSE, TRUE),
      Phrase(<<"M", "a", "s", "t", "e", "r", "c", "l", "a", "s", "s">>, FALSE, FALSE, TRUE),
      Phrase(<<"E", "x", "p", "e", "r", "t", " ", "d", "e", "e", "p", " ", "d", "i", "v", "e">>, FALSE, TRUE, TRUE),
      Phrase(<<"P", "r", "o", "d", "u", "c", "t", "i", "o", "n", " ", "b", "a", "s", "i", "c", "s", " ", "i", "n", "-", "d", "e", "p", "t", "h">>, TRUE, TRUE, TRUE),
      Phrase(<<>>, FALSE, FALSE, FALSE) }

\* a title and a description; 'how to' is in the text only once both are joined
TextPair(title, description, beginner, expert, intermediate) ==
    [title |-> title, description |-> description,
     beginner |-> beginner, expert |-> expert, intermediate |-> intermediate]

TextPairs ==
    { TextPair(t.text, d.text, t.beginner \/ d.beginner, t.expert \/ d.expert,
               t.intermediate \/ d.intermediate) : t \in Phrases, d \in Phrases }
        \cup { TextPair(<<"S", "h", "o", "w", " ", "m", "e", " ", "h", "o", "w">>, <<"t", "o", " ", "s", "h", "i", "p", " ", "a", "n", " ", "e", "n", "t", "e", "r", "p", "r", "i", "s", "e", " ", "a", "p", "p">>, TRUE, TRUE, FALSE) }

\* an item of the list handed to sortVideosByDifficulty
Item(id, title) ==
    [id |-> id, title |-> title, description |-> <<>>, channelTitle |-> "channel",
     publishedAt |-> "2024-01-01T00:00:00Z", duration |-> <<"P", "T", "5", "M">>, viewCount |-> <<"9">>,
     startTime |-> 0, endTime |-> 300]

\* the items with the level their title has
Items ==
    { [video |-> Item("b1", <<"R", "e", "a", "c", "t", " ", "b", "a", "s", "i", "c", "s">>), level |-> 0],
      [video |-> Item("b2", <<"H", "o", "w", " ", "t", "o", " ", "t", "e", "s", "t">>), level |-> 0],
      [video |-> Item("i1", <<"R", "e", "a", "c", "t", " ", "h", "o", "o", "k", "s">>), level |-> 1],
      [video |-> Item("i2", <<"A", "d", "v", "a", "n", "c", "e", "d", " ", "p", "a", "t", "t", "e", "r", "n", "s">>), level |-> 1],
      [video |-> Item("e1", <<"P", "e", "r", "f", "o", "r", "m", "a", "n", "c", "e", " ", "t", "u", "n", "i", "n", "g">>), level |-> 2] }

ItemLists == UNION {[1..n -> Items] : n \in 0..MaxVideos}

InitDifficulty == InitSegments

\* calculateDifficultyScore({ title, description }, query)
Classify(pair) ==
    /\ pure = NoPure
    /\ pure' = [fn |-> "calculateDifficultyScore", pair |-> pair,
                score |-> calculateDifficultyScore(pair)]
    /\ UNCHANGED <<now, requestTimes, lastRequestTime, requestCount, thr, dispatched,
                   started, budget, req, apiKey, page>>

\* the videos of a list of items
VideosOf(items) == [i \in 1..Len(items) |-> items[i].video]

\* sortVideosByDifficulty(videos, query), and its result sorted once more
SortVideos(items) ==
    /\ pure = NoPure
    /\ pure' = [fn |-> "sortVideosByDifficulty", items |-> items,
                sorted |-> sortVideosByDifficulty(VideosOf(items)),
                again |-> sortVideosByDifficulty(sortVideosByDifficulty(VideosOf(items)))]
    /\ UNCHANGED <<now, requestTimes, lastRequestTime, requestCount, thr, dispatched,
                   started, budget, req, apiKey, page>>

NextDifficulty ==
    \/ \E pair \in TextPairs : Classify(pair)
    \/ \E items \in ItemLists : SortVideos(items)

SpecDifficulty == InitDifficulty /\ [][NextDifficulty]_vars

----------------------------------------------------------------------------
(* Claims about the gateway *)

\* the callers inside throttle()
InFlight == {c \in Callers : thr[c].pc # "idle"}

\* C1: with two or more callers inside throttle() at once, no 60-second
\* interval holds more than 50 dispatched provider calls, that is any 51
\* consecutive dispatches span at least 60 seconds.
C1_RateCapUnderConcurrency ==
    Cardinality(InFlight) >= 2 =>
        \A i \in 1..Len(dispatched) :
            i + maxRequestsPerMinute <= Len(dispatched) =>
                dispatched[i + maxRequestsPerMinute] - dispatched[i] >= WindowMs

\* the recorded requests that are at most 60 seconds old at time t
RecentAt(t) == {i \in 1..Len(requestTimes) : requestTimes[i] >= t - WindowMs}

\* C2: for one sequential caller, a provider call is dispatched only when
\* fewer than 50 recorded requests are at most 60 seconds old: with 50 in the
\* window the call waits until the oldest of them is more than 60 seconds old.
C2_FullWindowWaits ==
    \A c \in Callers :
        thr[c].pc = "call" =>
            /\ Cardinality(RecentAt(thr[c].dispatchedAt)) < maxRequestsPerMinute
            /\ thr[c].atLimit => thr[c].dispatchedAt - thr[c].oldestRequest > WindowMs

\* C2 witness: a call was dispatched after waiting at a full window
C2_Witness ==
    \E c \in Callers :
        /\ thr[c].pc = "call"
        /\ thr[c].atLimit
        /\ Len(requestTimes) >= maxRequestsPerMinute

\* C3: any two dispatched provider calls are at least 100 ms apart,
\* whichever callers issued them.
C3_MinimumSpacing ==
    \A i, j \in 1..Len(dispatched) :
        i < j => dispatched[j] - dispatched[i] >= defaultDelay

\* C4: once an attempt is answered 403 with a quota body, the invocation
\* has returned: no further call, no sleep, and its result carries the
\* quota-exceeded error, whatever the attempt.
C4_QuotaStopsInvocation ==
    \A c \in Callers :
        thr[c].quotaSeen =>
            /\ thr[c].pc = "done"
            /\ thr[c].result.error = QuotaMessage
            /\ thr[c].calls = thr[c].attempt + 1

\* C4 witness: the quota answer arrived on a retry
C4_Witness ==
    \E c \in Callers : thr[c].quotaSeen /\ thr[c].attempt >= 1 /\ thr[c].pc = "done"

----------------------------------------------------------------------------
(* Claims about the route handler *)

\* a request with a valid prompt and a configured key that POST has answered
Served(c) == req[c].pc = "responded" /\ req[c].calls > 0

\* the candidates returned by the details calls of a request that are long
LongCandidates(c) == {v \in req[c].returned : isLongVideo(Catalog[v].duration)}

\* parseInt(video.statistics.viewCount || '0') of a candidate
ViewsOf(v) == ParseInt(Catalog[v].viewCount)

\* C5: when the provider answered a call of the request 403 with a quota
\* body, POST answers status 429 with an error body.
C5_QuotaReaches429 ==
    \A c \in Callers :
        Served(c) /\ req[c].quota > 0 => req[c].status = 429 /\ req[c].error # ""

\* C6: when every search and details call of the request failed and none of
\* them with a quota answer, POST answers status 200 with an empty videos
\* list and no error.
C6_FailuresAbsorbed ==
    \A c \in Callers :
        Served(c) /\ req[c].quota = 0 /\ req[c].failed = req[c].calls =>
            req[c].status = 200 /\ req[c].videos = <<>> /\ req[c].error = ""

\* C6 witness: all four searches failed, none by quota, and POST answered
C6_Witness ==
    \E c \in Callers :
        /\ Served(c)
        /\ req[c].quota = 0
        /\ req[c].failed = Len(crashCourseQueries(req[c].query))
        /\ req[c].failed = req[c].calls

\* C7: when at least one returned candidate is long, one video is selected,
\* it is long, it has at least the views of every long candidate, and the
\* response holds its segments only.
C7_LongCandidateSelected ==
    \A c \in Callers :
        Served(c) /\ LongCandidates(c) # {} =>
            /\ req[c].bestVideo \in LongCandidates(c)
            /\ \A v \in LongCandidates(c) : ViewsOf(req[c].bestVideo) >= ViewsOf(v)
            /\ req[c].videos # <<>>
            /\ \A i \in 1..Len(req[c].videos) :
                   req[c].videos[i].id = Catalog[req[c].bestVideo].id

\* C8: when every call of the request succeeded and no returned candidate is
\* long (or none was returned), POST answers status 200 with an empty videos
\* list and no error.
C8_NoCandidateEmptyResult ==
    \A c \in Callers :
        Served(c) /\ req[c].failed = 0 /\ LongCandidates(c) = {} =>
            req[c].status = 200 /\ req[c].videos = <<>> /\ req[c].error = ""

\* C8 witness: candidates were returned, all of them short, and POST answered
C8_Witness ==
    \E c \in Callers :
        /\ Served(c)
        /\ req[c].failed = 0
        /\ req[c].returned # {}
        /\ LongCandidates(c) = {}

----------------------------------------------------------------------------
(* Claims about the segmenters *)

\* C9: the segments built from the markers of a description have
\* startTime < endTime <= total duration each, are contiguous and ascending
\* by start, and the last one ends at the total duration.
C9_MarkerSegmentsWellFormed ==
    pure.fn = "splitVideoIntoSegments" /\ pure.timestamps > 0 =>
        /\ \A i \in 1..Len(pure.segments) :
               /\ pure.segments[i].startTime < pure.segments[i].endTime
               /\ pure.segments[i].endTime <= pure.totalSeconds
        /\ \A i \in 1..(Len(pure.segments) - 1) :
               /\ pure.segments[i].endTime = pure.segments[i + 1].startTime
               /\ pure.segments[i].startTime < pure.segments[i + 1].startTime
        /\ pure.segments[Len(pure.segments)].endTime = pure.totalSeconds

\* C10: for a total duration T of at least 5 seconds createEqualSegments
\* gives 5 contiguous segments from 0, the first four floor(T / 5) seconds
\* long and the last one ending at T.
C10_EqualSegmentsCoverTotal ==
    pure.fn = "createEqualSegments" /\ pure.totalSeconds >= segmentCount =>
        /\ Len(pure.segments) = segmentCount
        /\ pure.segments[1].startTime = 0
        /\ \A i \in 1..(segmentCount - 1) :
               /\ pure.segments[i].endTime - pure.segments[i].startTime
                      = FloorDiv(pure.totalSeconds, segmentCount)
               /\ pure.segments[i].endTime = pure.segments[i + 1].startTime
        /\ pure.segments[segmentCount].endTime = pure.totalSeconds

----------------------------------------------------------------------------
(* Claims about the timestamp extractor and the segment builder *)

\* the lines of the description are all of the form 'M:SS Title', with
\* offsets that differ from line to line
SimpleLines(lines) ==
    /\ \A k \in 1..Len(lines) : lines[k].simple
    /\ \A j, k \in 1..Len(lines) : j # k => lines[j].time # lines[k].time

\* C11: every line 'M:SS Title' of a description yields the marker
\* (60 * M + SS, Title), a line at 0:00 included, and the markers come in
\* ascending order of offset: nothing else is returned.
C11_EverySimpleLineIsAMarker ==
    pure.fn = "extractTimestampsFromDescription" /\ SimpleLines(pure.lines) =>
        /\ Len(pure.timestamps) = Len(pure.lines)
        /\ \A k \in 1..Len(pure.lines) :
               \E i \in 1..Len(pure.timestamps) :
                   /\ pure.timestamps[i].time = pure.lines[k].time
                   /\ pure.timestamps[i].title = pure.lines[k].title
        /\ \A i \in 1..(Len(pure.timestamps) - 1) :
               pure.timestamps[i].time < pure.timestamps[i + 1].time

\* C17: for n >= 1 markers and a total duration createSegmentsFromTimestamps
\* returns n segments; segment i starts at marker i, has its title and ends at
\* marker i + 1, the last one at the total duration.
C17_OneSegmentPerMarker ==
    pure.fn = "createSegmentsFromTimestamps" /\ Len(pure.timestamps) >= 1 =>
        /\ Len(pure.segments) = Len(pure.timestamps)
        /\ \A i \in 1..Len(pure.timestamps) :
              /\ pure.segments[i].startTime = pure.timestamps[i].time
              /\ pure.segments[i].title = pure.timestamps[i].title
              /\ i < Len(pure.timestamps) =>
                     pure.segments[i].endTime = pure.timestamps[i + 1].time
              /\ i = Len(pure.timestamps) =>
                     pure.segments[i].endTime = pure.totalSeconds

\* the example of the claim: (0, Intro), (330, Setup), (720, Advanced) against 900 seconds
C17_Witness ==
    /\ pure.fn = "createSegmentsFromTimestamps"
    /\ pure.timestamps = <<[time |-> 0, title |-> <<"I", "n", "t", "r", "o">>],
                           [time |-> 330, title |-> <<"S", "e", "t", "u", "p">>],
                           [time |-> 720, title |-> <<"A", "d", "v", "a", "n", "c", "e", "d">>]>>
    /\ pure.totalSeconds = 900
    /\ pure.segments = <<[startTime |-> 0, endTime |-> 330, title |-> <<"I", "n", "t", "r", "o">>],
                         [startTime |-> 330, endTime |-> 720, title |-> <<"S", "e", "t", "u", "p">>],
                         [startTime |-> 720, endTime |-> 900, title |-> <<"A", "d", "v", "a", "n", "c", "e", "d">>]>>

\* C18: the markers the extractor returns have strictly increasing times, a
\* non-empty title and a time that is not negative, and each of them is the
\* first of the matches with its time, in the order of the matches (pattern
\* by pattern, and by position in the text within a pattern).
C18_MarkersAscendingFirstKept ==
    pure.fn = "extractTimestampsFromDescription" =>
        /\ \A i, j \in 1..Len(pure.timestamps) :
               i < j => pure.timestamps[i].time < pure.timestamps[j].time
        /\ \A i \in 1..Len(pure.timestamps) :
               /\ pure.timestamps[i].title # <<>>
               /\ pure.timestamps[i].time >= 0
               /\ \E k \in 1..Len(pure.matches) :
                      /\ pure.matches[k] = pure.timestamps[i]
                      /\ \A j \in 1..(k - 1) :
                             pure.matches[j].time # pure.timestamps[i].time

\* '5:30 - Hooks' matches the first pattern with the title '- Hooks' and the
\* second one with the title 'Hooks'; '5:30 Setup' comes later in the text
C18_Witness ==
    /\ pure.fn = "extractTimestampsFromDescription"
    /\ Len(pure.matches) = 4
    /\ pure.matches[1] = [time |-> 330, title |-> <<"-", " ", "H", "o", "o", "k", "s">>]
    /\ pure.matches[2] = [time |-> 330, title |-> <<"S", "e", "t", "u", "p">>]
    /\ pure.matches[3] = [time |-> 720, title |-> <<"A", "d", "v", "a", "n", "c", "e", "d">>]
    /\ pure.matches[4] = [time |-> 330, title |-> <<"H", "o", "o", "k", "s">>]
    /\ pure.timestamps = <<pure.matches[1], pure.matches[3]>>

----------------------------------------------------------------------------
(* Claims about retries *)

\* the message of the error the catch block receives for an answer
ThrownMessage(response) ==
    IF response.status # 0 /\ response.message = <<>>
    THEN HttpMessage(response.status)
    ELSE response.message

\* the invocations that ended after every one of their calls failed with a
\* 5xx response or a network error
AllTransient(c) ==
    thr[c].pc = "done" /\ thr[c].calls > 0 /\ thr[c].transient = thr[c].calls

\* C12: when every attempt of an invocation fails with a 5xx response or a
\* network error, the call is invoked exactly maxRetries + 1 times, the sleeps
\* before the retries are delayMs, delayMs * backoffMultiplier, ... (100, 200
\* and 400 ms), there is no sleep after the last attempt, and the invocation
\* returns a failure with status 500 carrying the last error's message.
C12_TransientFailuresExhaustRetries ==
    \A c \in Callers :
        AllTransient(c) =>
            /\ thr[c].calls = YouTubeMaxRetries + 1
            /\ Len(thr[c].sleeps) = YouTubeMaxRetries
            /\ thr[c].sleeps[1] = YouTubeDelayMs
            /\ \A k \in 2..Len(thr[c].sleeps) :
                   thr[c].sleeps[k] = thr[c].sleeps[k - 1] * YouTubeBackoffMultiplier
            /\ thr[c].sleeps = <<100, 200, 400>>
            /\ thr[c].settledAt = now
            /\ ~thr[c].result.hasData
            /\ thr[c].result.status = 500
            /\ thr[c].result.error = ThrownMessage(thr[c].answer)

C12_Witness ==
    /\ AllTransient("a")
    /\ thr["a"].calls = YouTubeMaxRetries + 1
    /\ thr["a"].answer = RespUnavailable
    /\ thr["a"].result.error = HttpMessage(503)

\* the callers whose call has just failed with an answer that is neither a 429
\* nor a 403 with a quota body
JustFailed(c) ==
    /\ thr[c].calls > 0
    /\ thr[c].settledAt = now
    /\ thr[c].pc \in {"backoffWait", "done"}
    /\ ~(thr[c].answer.status >= 200 /\ thr[c].answer.status <= 299)
    /\ thr[c].answer.status # 429
    /\ ~(thr[c].answer.status = 403 /\ Includes(thr[c].answer.message, "quota"))

\* the error messages the catch block does not retry
ClientWording(message) ==
    Includes(message, "quota") \/ Includes(message, "400") \/ Includes(message, "401")

SecondsHint(response) ==
    /\ response.status = 429
    /\ \A i \in 1..Len(response.retryAfter) : IsDigit(response.retryAfter[i])

\* the hint of such an answer in milliseconds, 60 seconds when it is absent
HintMs(response) ==
    IF response.retryAfter = NoHeader THEN 60000
    ELSE DecimalValue(response.retryAfter) * 1000

\* C14: after a 429 answer the invocation sleeps for the Retry-After hint
\* (seconds, converted to milliseconds) or for 60 seconds without a hint,
\* the next call of the invocation is dispatched only after that sleep, and
\* neither the 429 nor the sleep changes the backoff delay or the last error.
C14_RetryAfterHonoured ==
    /\ [](\A c \in Callers :
            thr[c].pc = "call" /\ thr[c].calls > 1 /\ SecondsHint(thr[c].answer) =>
                thr[c].dispatchedAt >= thr[c].settledAt + HintMs(thr[c].answer))
    /\ [][\A c \in Callers :
            /\ thr[c].pc = "call" /\ thr'[c].pc = "retryAfterWait"
                   /\ SecondsHint(thr'[c].answer) =>
                  /\ thr'[c].wake >= now + HintMs(thr'[c].answer)
                  /\ thr'[c].wake <= now + HintMs(thr'[c].answer) + 1
                  /\ thr'[c].delay = thr[c].delay
                  /\ thr'[c].lastError = thr[c].lastError
            /\ thr[c].pc = "retryAfterWait" /\ thr'[c].pc # "retryAfterWait" =>
                  /\ now >= thr[c].wake
                  /\ thr'[c].delay = thr[c].delay
                  /\ thr'[c].lastError = thr[c].lastError]_vars

C14_Witness ==
    /\ thr["a"].pc = "call"
    /\ thr["a"].calls = 3
    /\ thr["a"].answer = Resp429After(<<"2">>)
    /\ thr["a"].dispatchedAt >= thr["a"].settledAt + 2000
    /\ thr["a"].sleeps = <<100>>
    /\ thr["a"].delay = 200
    /\ thr["a"].lastError = <<"Backend", "Error">>

\* the invocations that ended after maxRetries + 1 calls all answered 429
AllLimited(c) ==
    /\ thr[c].pc = "done"
    /\ thr[c].calls = YouTubeMaxRetries + 1
    /\ thr[c].answer.status = 429
    /\ thr[c].lastError = <<>>
    /\ thr[c].sleeps = <<>>

\* C24: an invocation makes at most maxRetries + 1 calls, whatever the
\* answers; when every sleep and every call completes it ends by returning a
\* result record, with data or with an error and status 500; after
\* maxRetries + 1 answers 429 the record is a failure with status 500.
C24_InvocationEnds ==
    /\ [](\A c \in Callers :
            /\ thr[c].calls <= YouTubeMaxRetries + 1
            /\ thr[c].attempt <= YouTubeMaxRetries + 1
            /\ thr[c].pc = "done" =>
                   \/ thr[c].result.hasData /\ thr[c].result.status \in 200..299
                   \/ ~thr[c].result.hasData /\ thr[c].result.status = 500
                        /\ thr[c].result.error # <<>>
            /\ AllLimited(c) =>
                   /\ ~thr[c].result.hasData
                   /\ thr[c].result.status = 500
                   /\ thr[c].result.error = DefaultFailureMessage)
    /\ \A c \in Callers : (thr[c].pc # "idle") ~> (thr[c].pc = "done")

C24_Witness ==
    /\ AllLimited("a")
    /\ thr["a"].result.status = 500
    /\ now >= 3 * DefaultRetryAfterMs

----------------------------------------------------------------------------
(* Claims about the validation of the request *)

\* the bodies whose prompt is missing, empty or not a string
PromptRejected(body) ==
    \/ body.type = "undefined"
    \/ body.type = "number"
    \/ body.type = "string" /\ body.text = <<>>

\* the gateway has not been used
GatewayUntouched ==
    /\ dispatched = <<>>
    /\ requestTimes = <<>>
    /\ lastRequestTime = 0
    /\ requestCount = 0
    /\ started = 0

\* C15: a request whose prompt is missing, empty or not a string is answered
\* with status 400 by the first step of the handler, which makes no call of
\* the gateway and leaves its window, last-request time and request count
\* as they were.
C15_InvalidPromptRejected ==
    /\ [](\A c \in Callers :
            req[c].pc # "idle" /\ PromptRejected(req[c].body) =>
                /\ req[c].pc = "responded"
                /\ req[c].status = 400
                /\ req[c].calls = 0
                /\ thr[c] = IdleFrame
                /\ GatewayUntouched)
    /\ [][\A c \in Callers :
            req[c].pc = "idle" /\ req'[c].pc # "idle" /\ PromptRejected(req'[c].body) =>
                /\ req'[c].status = 400
                /\ UNCHANGED <<thr, dispatched, requestTimes, lastRequestTime,
                               requestCount, started>>]_vars

C15_Witness ==
    /\ req["a"].pc = "responded"
    /\ req["a"].body = PromptString(<<>>)
    /\ req["a"].status = 400
    /\ apiKey
    /\ GatewayUntouched

\* C16: without the API key a request with a valid prompt is answered with
\* status 200 and an empty list of videos, and no call of the provider is made.
C16_MissingKeyServesEmptyList ==
    \A c \in Callers :
        /\ ~apiKey
        /\ req[c].pc # "idle"
        /\ req[c].body.type = "string"
        /\ req[c].body.text # <<>>
        => /\ req[c].pc = "responded"
           /\ req[c].status = 200
           /\ req[c].videos = <<>>
           /\ req[c].calls = 0
           /\ thr[c] = IdleFrame
           /\ GatewayUntouched

C16_Witness ==
    /\ ~apiKey
    /\ req["a"].pc = "responded"
    /\ req["a"].body = PromptString(req["a"].query)
    /\ req["a"].query # <<>>
    /\ req["a"].status = 200
    /\ req["a"].videos = <<>>
    /\ dispatched = <<>>

----------------------------------------------------------------------------
(* Claims about the duration codec *)

\* C19: formatSecondsToDuration followed by parseDurationToSeconds gives the
\* number of seconds back, 0 included, which is formatted as 'PT'; and for a
\* string PT[nH][nM][nS] the seconds parsed from it, formatted and parsed
\* again, are the same seconds.
C19_DurationRoundTrip ==
    /\ pure.fn = "formatSecondsToDuration" =>
           /\ pure.parsed = pure.seconds
           /\ pure.seconds = 0 => pure.duration = <<"P", "T">>
    /\ pure.fn = "parseDurationToSeconds" /\ pure.form = "valid" =>
           pure.reparsed = pure.seconds

C19_Witness ==
    /\ pure.fn = "formatSecondsToDuration"
    /\ pure.seconds = 3723
    /\ pure.duration = <<"P", "T", "1", "H", "2", "M", "3", "S">>
    /\ pure.parsed = 3723

\* C20: isLongVideo(s) is true exactly when parseDurationToSeconds(s) is at
\* least 1800; a string the pattern does not match gives 0 seconds and false;
\* 'PT29M59S' is not long and 'PT30M0S' is long.
C20_LongIffHalfAnHour ==
    pure.fn = "isLongVideo" =>
        /\ pure.long <=> pure.seconds >= 1800
        /\ pure.form = "nomatch" => pure.seconds = 0 /\ ~pure.long
        /\ pure.duration = <<"P", "T", "2", "9", "M", "5", "9", "S">> => ~pure.long
        /\ pure.duration = <<"P", "T", "3", "0", "M", "0", "S">> => pure.long

C20_Witness ==
    /\ pure.fn = "isLongVideo"
    /\ pure.duration = <<"P", "T", "2", "9", "M", "6", "0", "S">>
    /\ pure.seconds = 1800
    /\ pure.long

----------------------------------------------------------------------------
(* Claims about the difficulty classifier *)

\* C21: the level is 0 when the text holds a beginner keyword, whatever other
\* keywords it holds; otherwise 2 when it holds an expert keyword; otherwise
\* 1, with or without an intermediate keyword; it is always 0, 1 or 2.
C21_BeginnerThenExpertThenIntermediate ==
    pure.fn = "calculateDifficultyScore" =>
        /\ pure.score \in {0, 1, 2}
        /\ pure.pair.beginner => pure.score = 0
        /\ ~pure.pair.beginner /\ pure.pair.expert => pure.score = 2
        /\ ~pure.pair.beginner /\ ~pure.pair.expert => pure.score = 1

\* 'introduction' and 'professional' in one text
C21_Witness ==
    /\ pure.fn = "calculateDifficultyScore"
    /\ pure.pair.title = <<"I", "N", "T", "R", "O", "D", "U", "C", "T", "I", "O", "N", " ", "t", "o", " ", "R", "e", "a", "c", "t">>
    /\ pure.pair.description = <<"F", "o", "r", " ", "P", "r", "o", "f", "e", "s", "s", "i", "o", "n", "a", "l", " ", "t", "e", "a", "m", "s">>
    /\ pure.score = 0

\* the positions of a list that hold an item of a level
RECURSIVE IdsAtLevel(_, _, _)
IdsAtLevel(ids, levels, level) ==
    IF ids = <<>> THEN <<>>
    ELSE (IF levels[1] = level THEN <<ids[1]>> ELSE <<>>)
         \o IdsAtLevel(Tail(ids), Tail(levels), level)

\* C22: sortVideosByDifficulty returns the items of its input, each once for
\* each time it is in the input, ascending by level, the items of one level in
\* the order of the input; a sorted list is returned as it is.
C22_StableSortByLevel ==
    pure.fn = "sortVideosByDifficulty" =>
        LET n == Len(pure.items)
            inIds == [i \in 1..n |-> pure.items[i].video.id]
            inLevels == [i \in 1..n |-> pure.items[i].level]
            outIds == [i \in 1..Len(pure.sorted) |-> pure.sorted[i].id]
            outLevels == [i \in 1..Len(pure.sorted) |-> pure.sorted[i].difficultyScore]
        IN  /\ Len(pure.sorted) = n
            /\ \A i \in 1..Len(pure.sorted), j \in 1..Len(pure.sorted) :
                   i < j => outLevels[i] <= outLevels[j]
            /\ \A level \in {0, 1, 2} :
                   IdsAtLevel(outIds, outLevels, level) = IdsAtLevel(inIds, inLevels, level)
            /\ \A i \in 1..Len(pure.sorted) :
                   \E k \in 1..n :
                       /\ pure.items[k].level = pure.sorted[i].difficultyScore
                       /\ pure.items[k].video =
                              [f \in DOMAIN pure.items[k].video |-> pure.sorted[i][f]]
            /\ (\A i \in 1..n, j \in 1..n : i < j => inLevels[i] <= inLevels[j])
                   => outIds = inIds
            /\ pure.again = pure.sorted

\* two intermediate items around a beginner item and an expert item first
C22_Witness ==
    /\ pure.fn = "sortVideosByDifficulty"
    /\ Len(pure.items) = 3
    /\ pure.items[1].video.id = "i2"
    /\ pure.items[2].video.id = "b1"
    /\ pure.items[3].video.id = "i1"
    /\ pure.sorted[1].id = "b1"
    /\ pure.sorted[2].id = "i2"
    /\ pure.sorted[3].id = "i1"

----------------------------------------------------------------------------
(* Claims about requests made one after another *)

\* C23: a request made again, with the same prompt and the same API-key
\* setting, whose calls get the answers the calls of the first request got,
\* makes the same calls and returns the same status, videos and error as the
\* first, although it starts from another window of the gateway and after
\* another request.
C23_SameAnswersSameVideos ==
    /\ req["b"].pc \in {"search", "details"} => req["b"].calls <= Len(req["a"].responses)
    /\ req["b"].pc = "responded" =>
           /\ req["b"].responses = req["a"].responses
           /\ req["b"].calls = req["a"].calls
           /\ req["b"].status = req["a"].status
           /\ req["b"].videos = req["a"].videos
           /\ req["b"].error = req["a"].error

\* both requests made eight calls, the first from a window four below the cap
C23_Witness ==
    /\ req["b"].pc = "responded"
    /\ req["b"].videos # <<>>
    /\ req["b"].videos = req["a"].videos
    /\ Len(req["b"].responses) = 8
    /\ requestCount = maxRequestsPerMinute - 4 + 16

----------------------------------------------------------------------------
(* Claims about the videos returned *)

\* C25: when a video is selected the list returned has one entry for each
\* segment of the video; every entry has the video's id, channel, publish
\* date and view count, the bounds and the title of its segment, the duration
\* formatSecondsToDuration(endTime - startTime) and a difficulty score of 0,
\* 1 or 2; the list is ascending by difficulty score.
C25_OneResultPerSegment ==
    \A c \in Callers :
        req[c].pc = "responded" /\ req[c].bestVideo # NoVideo =>
            LET video == Catalog[req[c].bestVideo]
                segments == SegmentsOf(video, req[c].query)
                videos == req[c].videos
            IN  /\ req[c].status = 200
                /\ Len(videos) = Len(segments)
                /\ \A i \in 1..Len(segments) :
                       Cardinality({k \in 1..Len(videos) :
                                       /\ videos[k].startTime = segments[i].startTime
                                       /\ videos[k].endTime = segments[i].endTime
                                       /\ videos[k].title = segments[i].title}) = 1
                /\ \A k \in 1..Len(videos) :
                       /\ videos[k].id = video.id
                       /\ videos[k].channelTitle = video.channelTitle
                       /\ videos[k].publishedAt = video.publishedAt
                       /\ videos[k].viewCount = video.viewCount
                       /\ videos[k].duration =
                              formatSecondsToDuration(videos[k].endTime - videos[k].startTime)
                       /\ videos[k].difficultyScore \in {0, 1, 2}
                /\ \A j \in 1..Len(videos), k \in 1..Len(videos) :
                       j < k => videos[j].difficultyScore <= videos[k].difficultyScore

\* the video with chapters at 5:30 and 12:00 and a duration of 45 minutes
C25_Witness ==
    /\ req["a"].pc = "responded"
    /\ req["a"].bestVideo # NoVideo
    /\ Catalog[req["a"].bestVideo].id = "chapters"
    /\ Len(req["a"].videos) = 2
    /\ req["a"].videos[2].startTime = 720
    /\ req["a"].videos[2].endTime = 2700
    /\ req["a"].videos[2].duration = <<"P", "T", "3", "3", "M">>

----------------------------------------------------------------------------
(* Claims about the gateway's window *)

\* the step in which the call of c is answered
Settles(c) == thr[c].pc = "call" /\ thr'[c].pc # "call"

\* times is what is left of earlier after the removal of some of its first entries
IsSuffix(times, earlier) ==
    /\ Len(times) <= Len(earlier)
    /\ times = SubSeq(earlier, Len(earlier) - Len(times) + 1, Len(earlier))

\* C26: the window gains one timestamp, the time of the answer, for every
\* call answered with an HTTP response, whatever its status, and none for a
\* call that raises; no other step adds to it, and requestCount grows by one
\* with every timestamp recorded, from a start at which it counts the
\* timestamps of the window.
C26_OneTimestampPerResponse ==
    /\ requestCount = Len(requestTimes)
    /\ [][/\ \A c \in Callers :
                Settles(c) =>
                    IF thr'[c].answer.status = 0
                    THEN requestTimes' = requestTimes /\ requestCount' = requestCount
                    ELSE /\ requestTimes' = Append(requestTimes, now)
                         /\ requestCount' = requestCount + 1
          /\ (\A c \in Callers : ~Settles(c)) =>
                /\ IsSuffix(requestTimes', requestTimes)
                /\ requestCount' = requestCount]_vars

\* a 429 has just been recorded
C26_Witness ==
    /\ thr["a"].pc = "retryAfterWait"
    /\ thr["a"].settledAt = now
    /\ thr["a"].answer.status = 429
    /\ requestTimes # <<>>
    /\ requestTimes[Len(requestTimes)] = now
    /\ requestCount > Len(requestTimes)

\* C27: with callers interleaved in any way the timestamps of the window
\* are in non-decreasing order, lastRequestTime is the newest of them while
\* the window is not empty, totalRequests of getStats() is at least its
\* requestsInLastMinute, and a step that removes entries from the window
\* removes them from the old end.
C27_WindowOrdered ==
    /\ [](/\ \A i \in 1..Len(requestTimes), j \in 1..Len(requestTimes) :
                i < j => requestTimes[i] <= requestTimes[j]
          /\ requestTimes # <<>> => lastRequestTime = requestTimes[Len(requestTimes)]
          /\ getStats.totalRequests >= getStats.requestsInLastMinute)
    /\ [][Len(requestTimes') < Len(requestTimes) =>
              IsSuffix(requestTimes', requestTimes)]_vars

\* the window after entries were removed while another caller's call is out
C27_Witness ==
    /\ Len(requestTimes) >= 2
    /\ getStats.totalRequests >= getStats.requestsInLastMinute + 2
    /\ requestTimes[1] < requestTimes[Len(requestTimes)]
    /\ lastRequestTime = requestTimes[Len(requestTimes)]
    /\ thr["a"].pc = "call"
    /\ thr["b"].pc = "call"

----------------------------------------------------------------------------
(* Claims about the loop over the query variants *)

\* the call the request of c waits for has returned and the loop goes on
Returns(c) == req[c].pc \in {"search", "details"} /\ thr[c].pc = "done" /\ req'[c] # req[c]

\* the call that returned brought a long candidate with more views than maxViews
BringsBetter(c) ==
    /\ req[c].pc = "details"
    /\ thr[c].result.hasData
    /\ \E v \in Range(thr[c].result.data) :
           isLongVideo(Catalog[v].duration) /\ ViewsOf(v) > req[c].maxViews

\* C28: the query variants are processed one after another in their order; a
\* search or details call that comes back without data leaves bestVideo as it
\* was and is followed by the search of the next variant, the request is
\* answered only after the last variant, a long candidate with more views
\* brought by a later details call is selected, and a details call is only
\* made after a search of the same variant that returned at least one item.
C28_VariantsAllProcessed ==
    [][\A c \in Callers :
          /\ req'[c].variant # req[c].variant =>
                 /\ req'[c].variant = req[c].variant + 1
                 /\ req'[c].pc = "search"
                 /\ thr'[c].pc \notin {"idle", "done"}
          /\ (req'[c].pc = "details" /\ req[c].pc # "details") =>
                 /\ req[c].pc = "search"
                 /\ req'[c].variant = req[c].variant
                 /\ thr[c].result.hasData
                 /\ Len(thr[c].result.data) > 0
          /\ (Returns(c) /\ ~thr[c].result.hasData) =>
                 /\ req'[c].bestVideo = req[c].bestVideo
                 /\ req'[c].maxViews = req[c].maxViews
                 /\ IF req[c].variant < Len(crashCourseQueries(req[c].query))
                    THEN req'[c].pc = "search" /\ req'[c].variant = req[c].variant + 1
                    ELSE req'[c].pc = "responded"
          /\ (Returns(c) /\ BringsBetter(c)) =>
                 /\ req'[c].bestVideo \in Range(thr[c].result.data)
                 /\ req'[c].maxViews > req[c].maxViews
          /\ (req'[c].pc = "responded" /\ req[c].calls > 0) =>
                 req[c].variant = Len(crashCourseQueries(req[c].query))]_vars

\* three calls of the request failed and the one details call that did not
\* brought the video the answer is cut from
C28_Witness ==
    /\ req["a"].pc = "responded"
    /\ req["a"].failed = 3
    /\ req["a"].calls = 5
    /\ req["a"].variant = 4
    /\ req["a"].bestVideo # NoVideo
    /\ req["a"].videos # <<>>

\* positions of the details list of c's returned call at which a long
\* candidate with more views than maxViews stands
Contenders(c) ==
    {k \in 1..Len(thr[c].result.data) :
        /\ isLongVideo(Catalog[thr[c].result.data[k]].duration)
        /\ ViewsOf(thr[c].result.data[k]) > req[c].maxViews}

\* the first of the contenders with the most views
FirstOfTop(c) ==
    CHOOSE k \in Contenders(c) :
        /\ \A j \in Contenders(c) : ViewsOf(thr[c].result.data[j]) <= ViewsOf(thr[c].result.data[k])
        /\ \A j \in Contenders(c) :
               ViewsOf(thr[c].result.data[j]) = ViewsOf(thr[c].result.data[k]) => k <= j

\* C29: when a details call returns, bestVideo is replaced only by a long
\* candidate with strictly more views than the best so far, and of several
\* such candidates with the same, highest view count the first in the list
\* is taken; a candidate that only equals the best of an earlier variant
\* replaces nothing.
C29_FirstOfEqualsKept ==
    [][\A c \in Callers :
          /\ (Returns(c) /\ req[c].pc = "details" /\ thr[c].result.hasData) =>
                 IF Contenders(c) = {}
                 THEN req'[c].bestVideo = req[c].bestVideo /\ req'[c].maxViews = req[c].maxViews
                 ELSE /\ req'[c].bestVideo = thr[c].result.data[FirstOfTop(c)]
                      /\ req'[c].maxViews = ViewsOf(thr[c].result.data[FirstOfTop(c)])
          /\ req'[c].bestVideo # req[c].bestVideo =>
                 /\ Returns(c)
                 /\ req'[c].maxViews > req[c].maxViews
                 /\ ViewsOf(req'[c].bestVideo) = req'[c].maxViews]_vars

\* both videos with nine views came back, the later one twice, and the one
\* that came first is the one selected
C29_Witness ==
    /\ req["a"].pc = "responded"
    /\ req["a"].returned = {2, 3, 5}
    /\ req["a"].bestVideo = 2
    /\ req["a"].maxViews = ViewsOf(3)
    /\ req["a"].videos # <<>>

----------------------------------------------------------------------------
(* Claims about the page *)

\* C30: once a prompt was submitted while an earlier request was not over,
\* isLoading is true as long as a request is outstanding, and when none is
\* the videos and the error shown are those of the prompt submitted last.
C30_LatestPromptShown ==
    page.overlapped =>
        /\ (\E i \in 1..Len(page.calls) : ~Over(page.calls[i])) => page.isLoading
        /\ (\A i \in 1..Len(page.calls) : Over(page.calls[i])) =>
               /\ page.videos = page.calls[Len(page.calls)].videos
               /\ page.error = page.calls[Len(page.calls)].error

====
